---- MODULE Spec2Model ----
(***************************************************************************)
(* claude-contribs: the usage-log pipeline (file discovery, record         *)
(* validation, JSONL parsing, deduplication, date-range filtering,         *)
(* aggregation by day), the intensity classifier, the week-grid builder    *)
(* and the show and stats commands, as state machines.                     *)
(*                                                                         *)
(* Representation.                                                         *)
(*  - A string is a sequence of one-character strings, so concatenation    *)
(*    is \o and JavaScript's string comparison is lexicographic on the     *)
(*    character codes.                                                     *)
(*  - A Date is the number of whole hours since 1970-01-01T00:00 in the    *)
(*    process's local time zone (sub-hour precision is dropped); the       *)
(*    Invalid Date is the value InvalidDate.  Daylight saving is not       *)
(*    modelled: the zone is a fixed offset tz from UTC.                    *)
(*  - A JSON value is a tagged record: [t |-> "absent"] for a missing      *)
(*    property, [t |-> "str", v |-> chars], [t |-> "num", v |-> n],        *)
(*    [t |-> "obj", v |-> record].                                         *)
(***************************************************************************)
EXTENDS Integers, Sequences, FiniteSets, TLC

VARIABLES
    pc,          \* position of the running command / function
    tz,          \* local time zone: hours east of UTC
    files,       \* contents of the discovered .jsonl files (sequences of lines)
    entries,     \* UsageEntry[]: the list handed from stage to stage
    dailyMap,    \* aggregateByDay: the Map's values in insertion order
    aggPos,      \* aggregateByDay: number of entries folded so far
    dailyUsage,  \* DailyUsage[]: result of aggregateByDay
    thrown,      \* TRUE when an exception escaped the running function
    tokens,      \* getContributionLevel: argument tokens
    maxTokens,   \* getContributionLevel: argument maxTokens
    level,       \* getContributionLevel: result
    year,        \* generateContributionMap: argument year
    startMonth,  \* generateContributionMap: argument startMonth
    from,        \* filterByDateRange: argument from
    to,          \* filterByDateRange: argument to
    filtered,    \* UsageEntry[]: result of filterByDateRange
    command,     \* the command that runs: "show" or "stats"
    dataDir,     \* the data directory: what readdir and readFile find in it
    format,      \* show: options.format; stats: "json" or "text"
    exitCode,    \* 1 after process.exit(1), otherwise 0
    printed,     \* what the command wrote to the console, in order
    stats,       \* UsageStatistics: result of calculateUsageStatistics
    inputDate,   \* formatDate: the Date d
    formatted,   \* formatDate(d)
    parsedDate,  \* parseDate(formatDate(d))
    roundTrip,   \* formatDate(parseDate(formatDate(d)))
    excludeCache, \* stats: options.excludeCache
    figures,     \* the numbers printed by displayStatistics
    map          \* ContributionMap: result of generateContributionMap

vars == <<pc, tz, files, entries, dailyMap, aggPos, dailyUsage, thrown,
          tokens, maxTokens, level, year, startMonth, map,
          from, to, filtered,
          command, dataDir, format, exitCode, printed, stats,
          inputDate, formatted, parsedDate, roundTrip,
          excludeCache, figures>>

(***************************************************************************)
(* Bounds of the model.                                                    *)
(***************************************************************************)
MaxTokens == 400     \* classifier arguments range over 0..MaxTokens
MinYear == 1999      \* grids are built for MinYear..MaxYear
MaxYear == 2006
MaxDays == 1         \* DailyUsage records handed to the grid builder
MaxParseLines == 3   \* lines of the file parseJsonlFile is checked on
MaxFiles == 2        \* .jsonl files loadUsageData discovers
MaxLoadLines == 3    \* lines in all discovered files together
MaxFilterEntries == 2  \* entries handed to filterByDateRange
MaxOrderFiles == 3     \* files loadUsageData reads when the order is permuted
MaxDirEntries == 2     \* entries of the data directory
MaxStatsEntries == 3   \* entries handed to calculateUsageStatistics
MaxShowEntries == 2   \* loaded entries handed to the range filter of showCommand
MaxStageDirEntries == 2   \* entries of the data directory the stages of a command run on
TzHours == 2         \* the local zone is TzHours west or east of UTC

(***************************************************************************)
(* Strings.                                                                *)
(***************************************************************************)
Digits == <<"0", "1", "2", "3", "4", "5", "6", "7", "8", "9">>

IsDigit(c) == \E i \in 1..10 : Digits[i] = c

DigitVal(c) == (CHOOSE i \in 1..10 : Digits[i] = c) - 1

Pow10(n) == IF n = 0 THEN 1 ELSE IF n = 1 THEN 10 ELSE IF n = 2 THEN 100 ELSE 1000

\* n as exactly `width` decimal digits (date-fns pads "yyyy", "MM", "dd")
Pad(n, width) == [i \in 1..width |-> Digits[((n \div Pow10(width - i)) % 10) + 1]]

AllDigits(s) == \A i \in 1..Len(s) : IsDigit(s[i])

RECURSIVE ToNumber(_)
ToNumber(s) ==
    IF Len(s) = 0 THEN 0
    ELSE 10 * ToNumber(SubSeq(s, 1, Len(s) - 1)) + DigitVal(s[Len(s)])

\* UTF-16 code unit of the characters the model uses
CharCode(c) ==
    IF IsDigit(c) THEN 48 + DigitVal(c)
    ELSE IF c = "-" THEN 45
    ELSE IF c = ":" THEN 58
    ELSE IF c = "T" THEN 84
    ELSE IF c = "Z" THEN 90
    ELSE IF c = "a" THEN 97
    ELSE IF c = "b" THEN 98
    ELSE 120

\* JavaScript's a < b on strings
RECURSIVE StrLess(_, _)
StrLess(a, b) ==
    IF Len(b) = 0 THEN FALSE
    ELSE IF Len(a) = 0 THEN TRUE
    ELSE IF CharCode(a[1]) # CharCode(b[1]) THEN CharCode(a[1]) < CharCode(b[1])
    ELSE StrLess(Tail(a), Tail(b))

(***************************************************************************)
(* Dates: the JavaScript Date and the date-fns functions the code calls.   *)
(***************************************************************************)
InvalidDate == 0 - 100000000

\* days since 1970-01-01 of the proleptic Gregorian date y-m-d
DaysFromCivil(y, m, d) ==
    LET yy  == IF m <= 2 THEN y - 1 ELSE y
        era == yy \div 400
        yoe == yy - era * 400
        mp  == IF m > 2 THEN m - 3 ELSE m + 9
        doy == (153 * mp + 2) \div 5 + d - 1
        doe == yoe * 365 + yoe \div 4 - yoe \div 100 + doy
    IN  era * 146097 + doe - 719468

CivilFromDays(z) ==
    LET zz  == z + 719468
        era == zz \div 146097
        doe == zz - era * 146097
        yoe == (doe - doe \div 1460 + doe \div 36524 - doe \div 146096) \div 365
        doy == doe - (365 * yoe + yoe \div 4 - yoe \div 100)
        mp  == (5 * doy + 2) \div 153
        d   == doy - (153 * mp + 2) \div 5 + 1
        m   == IF mp < 10 THEN mp + 3 ELSE mp - 9
        y   == yoe + era * 400 + (IF m <= 2 THEN 1 ELSE 0)
    IN  [y |-> y, m |-> m, d |-> d]

\* new Date(year, monthIndex, day): local midnight, month and day overflow carried
JSDate(y, monthIndex, day) ==
    (DaysFromCivil(y + monthIndex \div 12, (monthIndex % 12) + 1, 1) + day - 1) * 24

\* Date.prototype.getDay(): 0 = Sunday
GetDay(date) == ((date \div 24) + 4) % 7

GetFullYear(date) == CivilFromDays(date \div 24).y

AddDays(date, n) == date + 24 * n

StartOfWeek(date) == ((date \div 24) - GetDay(date)) * 24

StartOfYear(date) == JSDate(GetFullYear(date), 0, 1)

\* Dec 31, 23:59:59.999 of the date's year: the year's last hour
EndOfYear(date) == JSDate(GetFullYear(date), 11, 31) + 23

\* format(date, "yyyy-MM-dd") of a valid date
FormatDate(date) ==
    LET c == CivilFromDays(date \div 24)
    IN  Pad(c.y, 4) \o <<"-">> \o Pad(c.m, 2) \o <<"-">> \o Pad(c.d, 2)

IsDateOnly(s) ==
    /\ Len(s) = 10
    /\ s[5] = "-" /\ s[8] = "-"
    /\ AllDigits(SubSeq(s, 1, 4)) /\ AllDigits(SubSeq(s, 6, 7)) /\ AllDigits(SubSeq(s, 9, 10))
    /\ ToNumber(SubSeq(s, 6, 7)) \in 1..12
    /\ ToNumber(SubSeq(s, 9, 10)) \in 1..31

IsDateTimeZ(s) ==
    /\ Len(s) = 20
    /\ IsDateOnly(SubSeq(s, 1, 10))
    /\ s[11] = "T" /\ s[14] = ":" /\ s[17] = ":" /\ s[20] = "Z"
    /\ AllDigits(SubSeq(s, 12, 13)) /\ AllDigits(SubSeq(s, 15, 16)) /\ AllDigits(SubSeq(s, 18, 19))
    /\ ToNumber(SubSeq(s, 12, 13)) \in 0..23
    /\ ToNumber(SubSeq(s, 15, 16)) \in 0..59
    /\ ToNumber(SubSeq(s, 18, 19)) \in 0..59

\* new Date(string): "YYYY-MM-DDTHH:mm:ssZ" and the date-only "YYYY-MM-DD" are UTC
\* instants, shown here in local time; any other text is the Invalid Date
NewDate(s) ==
    LET days == DaysFromCivil(ToNumber(SubSeq(s, 1, 4)), ToNumber(SubSeq(s, 6, 7)),
                              ToNumber(SubSeq(s, 9, 10)))
    IN  IF IsDateTimeZ(s) THEN days * 24 + ToNumber(SubSeq(s, 12, 13)) + tz
        ELSE IF IsDateOnly(s) THEN days * 24 + tz
        ELSE InvalidDate

\* parseDate: new Date(dateString)
ParseDate(dateString) == NewDate(dateString)

(***************************************************************************)
(* utils/color-utils.ts: the intensity classifier.                         *)
(***************************************************************************)
\* tokens / maxTokens >= num / den in IEEE arithmetic (x/0 is +-Infinity, den > 0)
RatioAtLeast(t, m, num, den) ==
    IF m > 0 THEN den * t >= num * m
    ELSE IF m < 0 THEN den * t <= num * m
    ELSE t > 0

GetContributionLevelStrict(t, m) ==
    IF t = 0 THEN 0
    ELSE IF m > 0 /\ 4 * t > 3 * m THEN 4
    ELSE IF m > 0 /\ 2 * t > m THEN 3
    ELSE IF m > 0 /\ 4 * t > m THEN 2
    ELSE IF m = 0 THEN 4
    ELSE 1

GetContributionLevel(t, m) ==
    IF t = 0 THEN 0
    ELSE IF RatioAtLeast(t, m, 3, 4) THEN 4
    ELSE IF RatioAtLeast(t, m, 1, 2) THEN 3
    ELSE IF RatioAtLeast(t, m, 1, 4) THEN 2
    ELSE 1

(***************************************************************************)
(* utils/date-utils.ts: the week grid.                                     *)
(***************************************************************************)
MAX_WEEKS == 53

\* while (current <= end) { weeks.push(current); current = addDays(current, 7) }
RECURSIVE WeeksLoop(_, _, _)
WeeksLoop(current, end, weeks) ==
    IF current <= end
    THEN WeeksLoop(AddDays(current, 7), end, Append(weeks, current))
    ELSE weeks

\* Array.prototype.slice(0, n)
Slice0(s, n) == SubSeq(s, 1, IF Len(s) < n THEN Len(s) ELSE n)

GetWeeksInYearUncapped(y) ==
    LET start == StartOfYear(JSDate(y, 0, 1))
        end   == EndOfYear(JSDate(y, 0, 1))
    IN  WeeksLoop(StartOfWeek(start), end, <<>>)

GetWeeksInYearCap52(y) ==
    LET start == StartOfYear(JSDate(y, 0, 1))
        end   == EndOfYear(JSDate(y, 0, 1))
    IN  Slice0(WeeksLoop(StartOfWeek(start), end, <<>>), MAX_WEEKS - 1)

GetWeeksInYearFromJan1(y) ==
    LET start == StartOfYear(JSDate(y, 0, 1))
        end   == EndOfYear(JSDate(y, 0, 1))
    IN  Slice0(WeeksLoop(start, end, <<>>), MAX_WEEKS)

GetWeeksInYear(y) ==
    LET start == StartOfYear(JSDate(y, 0, 1))
        end   == EndOfYear(JSDate(y, 0, 1))
    IN  Slice0(WeeksLoop(StartOfWeek(start), end, <<>>), MAX_WEEKS)

GetDaysInWeekMondayShift(weekStart) == [i \in 1..7 |-> AddDays(weekStart, i)]

GetDaysInWeek(weekStart) == [i \in 1..7 |-> AddDays(weekStart, i - 1)]

GetWeeksInCustomYearCap52(y, sm) ==
    LET startDate == JSDate(y, sm - 1, 1)
        endDate   == JSDate(y + 1, sm - 1, 0)
    IN  Slice0(WeeksLoop(StartOfWeek(startDate), endDate, <<>>), MAX_WEEKS - 1)

GetWeeksInCustomYear(y, sm) ==
    LET startDate == JSDate(y, sm - 1, 1)
        endDate   == JSDate(y + 1, sm - 1, 0)
    IN  Slice0(WeeksLoop(StartOfWeek(startDate), endDate, <<>>), MAX_WEEKS)

(***************************************************************************)
(* visualizer.ts: generateContributionMap.                                 *)
(***************************************************************************)
\* new Map(dailyUsage.map(u => [u.date, u])).get(dateStr): the last record wins
UsageMapGet(daily, dateStr) ==
    LET hits == {i \in 1..Len(daily) : daily[i].date = dateStr}
    IN  IF hits = {} THEN [t |-> "absent"]
        ELSE [t |-> "obj", v |-> daily[CHOOSE i \in hits : \A j \in hits : j <= i]]

RECURSIVE SumTotalTokensEntryCount(_)
SumTotalTokensEntryCount(daily) ==
    IF Len(daily) = 0 THEN 0
    ELSE SumTotalTokensEntryCount(SubSeq(daily, 1, Len(daily) - 1))
         + daily[Len(daily)].entryCount

RECURSIVE SumTotalTokens(_)
SumTotalTokens(daily) ==
    IF Len(daily) = 0 THEN 0
    ELSE SumTotalTokens(SubSeq(daily, 1, Len(daily) - 1)) + daily[Len(daily)].totalTokens

RECURSIVE MaxTotalTokens(_)
MaxTotalTokens(daily) ==
    IF Len(daily) = 0 THEN 0
    ELSE LET rest == MaxTotalTokens(SubSeq(daily, 1, Len(daily) - 1))
             t    == daily[Len(daily)].totalTokens
         IN  IF t > rest THEN t ELSE rest

ContributionDayNoLookup(daily, day, maxDaily) ==
    [date |-> FormatDate(day), tokens |-> 0, level |-> GetContributionLevel(0, maxDaily)]

ContributionDay(daily, day, maxDaily) ==
    LET dateStr == FormatDate(day)
        usage   == UsageMapGet(daily, dateStr)
        tk      == IF usage.t = "absent" THEN 0 ELSE usage.v.totalTokens
    IN  [date |-> dateStr, tokens |-> tk, level |-> GetContributionLevel(tk, maxDaily)]

GenerateContributionMap(daily, y, sm) ==
    LET weeks    == IF sm = 1 THEN GetWeeksInYear(y) ELSE GetWeeksInCustomYear(y, sm)
        maxDaily == MaxTotalTokens(daily)
    IN  [year           |-> y,
         startMonth     |-> sm,
         endMonth       |-> IF sm = 1 THEN 12 ELSE sm - 1,
         weeks          |-> [w \in 1..Len(weeks) |->
                               [days |-> LET days == GetDaysInWeek(weeks[w])
                                         IN  [i \in 1..Len(days) |->
                                                ContributionDay(daily, days[i], maxDaily)]]],
         totalTokens    |-> SumTotalTokens(daily),
         maxDailyTokens |-> maxDaily]

(***************************************************************************)
(* types.ts: usageEntrySchema.                                             *)
(***************************************************************************)
Absent == [t |-> "absent"]

Str(s) == [t |-> "str", v |-> s]

Num(n) == [t |-> "num", v |-> n]

Obj(r) == [t |-> "obj", v |-> r]

\* z.string().optional()
IsOptionalString(j) == j.t \in {"absent", "str"}

\* .transform((val) => (val ? create...(val) : undefined)): "" becomes undefined
TransformId(j) == IF j.t = "str" /\ Len(j.v) > 0 THEN j ELSE Absent

\* z.number().optional()
IsOptionalNumber(j) == j.t \in {"absent", "num"}

\* the property f of a JSON object, absent when the object has none
FieldOf(r, f) == IF f \in DOMAIN r THEN r[f] ELSE Absent

\* the usage object schema: input_tokens and output_tokens are z.number(), the
\* two cache counts z.number().optional()
UsageShapeOk(j) ==
    \/ j.t = "absent"
    \/ /\ j.t = "obj"
       /\ j.v.input_tokens.t = "num"
       /\ j.v.output_tokens.t = "num"
       /\ IsOptionalNumber(FieldOf(j.v, "cache_creation_input_tokens"))
       /\ IsOptionalNumber(FieldOf(j.v, "cache_read_input_tokens"))

\* the message object schema
MessageShapeOk(j) ==
    \/ j.t = "absent"
    \/ /\ j.t = "obj"
       /\ IsOptionalString(j.v.id)
       /\ IsOptionalString(FieldOf(j.v, "model"))
       /\ UsageShapeOk(j.v.usage)

\* the z.object({...}) part of usageEntrySchema
ObjectShapeOk(j) ==
    /\ j.t = "obj"
    /\ j.v.timestamp.t = "str"
    /\ MessageShapeOk(j.v.message)
    /\ IsOptionalString(j.v.requestId)

\* the parsed data: ids and model transformed, the required numbers unwrapped,
\* the optional cache counts kept as they are (a number or absent)
ParsedData(j) ==
    [timestamp |-> j.v.timestamp.v,
     requestId |-> TransformId(j.v.requestId),
     message   |-> IF j.v.message.t = "absent" THEN Absent
                   ELSE Obj([id    |-> TransformId(j.v.message.v.id),
                             model |-> TransformId(FieldOf(j.v.message.v, "model")),
                             usage |-> IF j.v.message.v.usage.t = "absent" THEN Absent
                                       ELSE LET u == j.v.message.v.usage.v
                                            IN  Obj([input_tokens  |-> u.input_tokens.v,
                                                     output_tokens |-> u.output_tokens.v,
                                                     cache_creation_input_tokens |->
                                                         FieldOf(u, "cache_creation_input_tokens"),
                                                     cache_read_input_tokens |->
                                                         FieldOf(u, "cache_read_input_tokens")])])]

\* entry.message?.usage
MessageUsage(e) == IF e.message.t = "absent" THEN Absent ELSE e.message.v.usage

\* entry.message?.id
MessageId(e) == IF e.message.t = "absent" THEN Absent ELSE e.message.v.id

\* .refine(data => data.message?.usage && (input_tokens >= 0 || output_tokens >= 0))
Refine(data) ==
    /\ MessageUsage(data).t = "obj"
    /\ (MessageUsage(data).v.input_tokens >= 0 \/ MessageUsage(data).v.output_tokens >= 0)

\* usageEntrySchema.safeParse(json)
SafeParse(j) ==
    IF ObjectShapeOk(j) /\ Refine(ParsedData(j))
    THEN [success |-> TRUE, data |-> ParsedData(j)]
    ELSE [success |-> FALSE]

(***************************************************************************)
(* data-loader.ts: DataLoader.                                             *)
(***************************************************************************)
\* a line of a file: blank, text that is not JSON, or the text of a JSON value
BlankLine == [kind |-> "blank"]

TextLine == [kind |-> "text"]

JsonLine(j) == [kind |-> "json", value |-> j]

\* JSON.parse(line): a value, or a SyntaxError
JsonParse(line) ==
    IF line.kind = "json" THEN [ok |-> TRUE, value |-> line.value] ELSE [ok |-> FALSE]

\* content.split("\n").filter((line) => line.trim())
NonBlankLines(lines) == SelectSeq(lines, LAMBDA l : l.kind # "blank")

\* the body of the for loop of parseJsonlFile: entries after one more line
ParseLineAbortOnBadJson(acc, line) ==
    IF ~JsonParse(line).ok THEN <<>>
    ELSE IF SafeParse(JsonParse(line).value).success
    THEN Append(acc, SafeParse(JsonParse(line).value).data)
    ELSE acc

ParseLine(acc, line) ==
    IF ~JsonParse(line).ok THEN acc
    ELSE IF SafeParse(JsonParse(line).value).success
    THEN Append(acc, SafeParse(JsonParse(line).value).data)
    ELSE acc

RECURSIVE ParseLines(_, _)
ParseLines(acc, lines) ==
    IF Len(lines) = 0 THEN acc
    ELSE ParseLines(ParseLine(acc, Head(lines)), Tail(lines))

\* parseJsonlFile(filePath): a file that cannot be read yields no entries
ParseJsonlFile(file) ==
    IF file.readable THEN ParseLines(<<>>, NonBlankLines(file.lines)) ELSE <<>>

\* `${entry.requestId || ""}-${entry.message?.id || ""}-${entry.timestamp}`
OrEmpty(j) == IF j.t = "str" THEN j.v ELSE <<>>

DedupKey(e) == OrEmpty(e.requestId) \o <<"-">> \o OrEmpty(MessageId(e)) \o <<"-">> \o e.timestamp

RECURSIVE DedupLoop(_, _, _)
DedupLoop(rest, seen, unique) ==
    IF Len(rest) = 0 THEN unique
    ELSE IF DedupKey(Head(rest)) \notin seen
    THEN DedupLoop(Tail(rest), seen \cup {DedupKey(Head(rest))}, Append(unique, Head(rest)))
    ELSE DedupLoop(Tail(rest), seen, unique)

DeduplicateKeepAll(es) == es

RECURSIVE DeduplicateKeepLast(_)
DeduplicateKeepLast(es) ==
    IF Len(es) = 0 THEN <<>>
    ELSE IF \E i \in 2..Len(es) : DedupKey(es[i]) = DedupKey(es[1])
    THEN DeduplicateKeepLast(Tail(es))
    ELSE <<es[1]>> \o DeduplicateKeepLast(Tail(es))

DeduplicateEntries(es) == DedupLoop(es, {}, <<>>)

\* for (const file of files) entries.push(...await parseJsonlFile(file))
ParseAllFilesFirstOnly(fs) == IF Len(fs) = 0 THEN <<>> ELSE ParseJsonlFile(Head(fs))

RECURSIVE ParseAllFiles(_)
ParseAllFiles(fs) ==
    IF Len(fs) = 0 THEN <<>>
    ELSE ParseJsonlFile(Head(fs)) \o ParseAllFiles(Tail(fs))

LoadUsageData(fs) == DeduplicateEntries(ParseAllFiles(fs))

\* the fold of aggregateByDay: the Map's values after one more entry with usage
\* whose timestamp is a valid date
FoldEntryOverwrite(dmap, e) ==
    LET date  == FormatDate(NewDate(e.timestamp))
        u     == MessageUsage(e).v
        fresh == [date |-> date, totalTokens |-> u.input_tokens + u.output_tokens,
                  inputTokens |-> u.input_tokens, outputTokens |-> u.output_tokens,
                  entryCount |-> 1]
    IN  IF \E i \in 1..Len(dmap) : dmap[i].date = date
        THEN [i \in 1..Len(dmap) |-> IF dmap[i].date = date THEN fresh ELSE dmap[i]]
        ELSE Append(dmap, fresh)

FoldEntry(dmap, e) ==
    LET date  == FormatDate(NewDate(e.timestamp))
        u     == MessageUsage(e).v
        total == u.input_tokens + u.output_tokens
    IN  IF \E i \in 1..Len(dmap) : dmap[i].date = date
        THEN [i \in 1..Len(dmap) |->
                IF dmap[i].date = date
                THEN [date         |-> date,
                      totalTokens  |-> dmap[i].totalTokens + total,
                      inputTokens  |-> dmap[i].inputTokens + u.input_tokens,
                      outputTokens |-> dmap[i].outputTokens + u.output_tokens,
                      entryCount   |-> dmap[i].entryCount + 1]
                ELSE dmap[i]]
        ELSE Append(dmap, [date         |-> date,
                           totalTokens  |-> total,
                           inputTokens  |-> u.input_tokens,
                           outputTokens |-> u.output_tokens,
                           entryCount   |-> 1])

\* Array.from(dailyMap.values()).sort((a, b) => a.date.localeCompare(b.date))
RECURSIVE InsertByDate(_, _)
InsertByDate(sorted, d) ==
    IF Len(sorted) = 0 THEN <<d>>
    ELSE IF StrLess(d.date, Head(sorted).date) THEN <<d>> \o sorted
    ELSE <<Head(sorted)>> \o InsertByDate(Tail(sorted), d)

SortByDateInsertionOrder(ds) == ds

RECURSIVE SortByDate(_)
SortByDate(ds) ==
    IF Len(ds) = 0 THEN <<>>
    ELSE InsertByDate(SortByDate(SubSeq(ds, 1, Len(ds) - 1)), ds[Len(ds)])

\* `from && ...`: undefined and the empty string are falsy
Truthy(j) == j.t = "str" /\ Len(j.v) > 0

\* filterByDateRange's callback on the formatted local date of the entry
FilterKeepsExclusive(e, fromArg, toArg) ==
    LET entryDate == FormatDate(NewDate(e.timestamp))
    IN  /\ ~(Truthy(fromArg) /\ ~StrLess(fromArg.v, entryDate))
        /\ ~(Truthy(toArg) /\ ~StrLess(entryDate, toArg.v))

FilterKeeps(e, fromArg, toArg) ==
    LET entryDate == FormatDate(NewDate(e.timestamp))
    IN  /\ ~(Truthy(fromArg) /\ StrLess(entryDate, fromArg.v))
        /\ ~(Truthy(toArg) /\ StrLess(toArg.v, entryDate))

\* format() throws a RangeError on the Invalid Date, for whichever entry
FilterThrows(es) == \E i \in 1..Len(es) : NewDate(es[i].timestamp) = InvalidDate

FilterByDateRange(es, fromArg, toArg) ==
    SelectSeq(es, LAMBDA e : FilterKeeps(e, fromArg, toArg))

(***************************************************************************)
(* data-loader.ts: discovery of the files, and the loader as the commands  *)
(* call it.  A directory is [listable, entries]; a directory entry is      *)
(* [kind |-> "file", jsonl, readable, lines] or                            *)
(* [kind |-> "dir", listable, entries].                                    *)
(***************************************************************************)
NoDir == [listable |-> FALSE, entries |-> <<>>]

\* what readFile finds at the path of a file entry
FileOf(d) == [readable |-> d.readable, lines |-> d.lines]

\* entry.isFile() && extname(entry.name) === JSONL_EXTENSION
IsJsonlFile(d) == d.kind = "file" /\ d.jsonl

\* findJsonlFilesInDirectory: the .jsonl files directly in dir; a readdir
\* failure is swallowed
RECURSIVE JsonlFilesIn(_)
JsonlFilesIn(dirents) ==
    IF Len(dirents) = 0 THEN <<>>
    ELSE (IF IsJsonlFile(Head(dirents)) THEN <<FileOf(Head(dirents))>> ELSE <<>>)
             \o JsonlFilesIn(Tail(dirents))

FindJsonlFilesInDirectory(dir) ==
    IF dir.listable THEN JsonlFilesIn(dir.entries) ELSE <<>>

\* the for loop of findJsonlFiles over the entries of the data directory
RECURSIVE FindLoopStopAtUnlistable(_)
FindLoopStopAtUnlistable(dirents) ==
    IF Len(dirents) = 0 THEN <<>>
    ELSE LET d == Head(dirents)
         IN  IF IsJsonlFile(d) THEN <<FileOf(d)>> \o FindLoopStopAtUnlistable(Tail(dirents))
             ELSE IF d.kind = "dir"
             THEN (IF d.listable
                   THEN FindJsonlFilesInDirectory(d) \o FindLoopStopAtUnlistable(Tail(dirents))
                   ELSE <<>>)
             ELSE FindLoopStopAtUnlistable(Tail(dirents))

RECURSIVE FindLoop(_)
FindLoop(dirents) ==
    IF Len(dirents) = 0 THEN <<>>
    ELSE LET d == Head(dirents)
         IN  (IF IsJsonlFile(d) THEN <<FileOf(d)>>
              ELSE IF d.kind = "dir" THEN FindJsonlFilesInDirectory(d)
              ELSE <<>>) \o FindLoop(Tail(dirents))

\* findJsonlFiles: a readdir failure on the data directory is rethrown
FindJsonlFiles(dir) ==
    IF dir.listable THEN [threw |-> FALSE, files |-> FindLoop(dir.entries)]
    ELSE [threw |-> TRUE, files |-> <<>>]

\* loadUsageData on the data directory: the catch returns []
LoadUsageDataIn(dir) ==
    LET found == FindJsonlFiles(dir)
    IN  IF found.threw THEN <<>> ELSE LoadUsageData(found.files)

\* aggregateByDay as one call
RECURSIVE AggregateLoop(_, _)
AggregateLoop(es, dmap) ==
    IF Len(es) = 0 THEN dmap
    ELSE AggregateLoop(Tail(es),
                       IF MessageUsage(Head(es)).t = "absent" THEN dmap
                       ELSE FoldEntry(dmap, Head(es)))

AggregateThrows(es) ==
    \E i \in 1..Len(es) :
        MessageUsage(es[i]).t # "absent" /\ NewDate(es[i].timestamp) = InvalidDate

AggregateByDay(es) == SortByDate(AggregateLoop(es, <<>>))

(***************************************************************************)
(* The show command (showCommand) and commands/stats.ts.                   *)
(***************************************************************************)
\* entries.length === 0 after loadUsageData
NoDataFoundNever(es) == FALSE

NoDataFound(es) == Len(es) = 0

\* showCommand: entries.filter(e => new Date(e.timestamp) >= startDate &&
\* new Date(e.timestamp) <= endDate); every comparison with the Invalid Date
\* is false
InShowRange(e, y, sm) ==
    LET startDate == JSDate(y, sm - 1, 1)
        endDate   == JSDate(y + 1, sm - 1, 0)
        entryDate == NewDate(e.timestamp)
    IN  entryDate # InvalidDate /\ entryDate >= startDate /\ entryDate <= endDate

ShowRangeEntries(es, y, sm) == SelectSeq(es, LAMBDA e : InShowRange(e, y, sm))

\* Math.max() of no arguments
NegInfinity == 0 - 1000000000

\* reduce((sum, entry) => sum + (entry.message?.usage?.input_tokens || 0), 0)
RECURSIVE SumInputTokens(_)
SumInputTokens(es) ==
    IF Len(es) = 0 THEN 0
    ELSE (IF MessageUsage(Head(es)).t = "absent" THEN 0
          ELSE MessageUsage(Head(es)).v.input_tokens) + SumInputTokens(Tail(es))

RECURSIVE SumOutputTokens(_)
SumOutputTokens(es) ==
    IF Len(es) = 0 THEN 0
    ELSE (IF MessageUsage(Head(es)).t = "absent" THEN 0
          ELSE MessageUsage(Head(es)).v.output_tokens) + SumOutputTokens(Tail(es))

RECURSIVE MaxOfDays(_)
MaxOfDays(daily) ==
    IF Len(daily) = 0 THEN NegInfinity
    ELSE LET rest == MaxOfDays(Tail(daily))
         IN  IF Head(daily).totalTokens > rest THEN Head(daily).totalTokens ELSE rest

\* entry.message?.usage?.<field> || 0 for an optional count
UsageCount(e, field) ==
    IF MessageUsage(e).t = "absent" THEN 0
    ELSE IF MessageUsage(e).v[field].t = "num" THEN MessageUsage(e).v[field].v
    ELSE 0

RECURSIVE SumCacheCreationTokens(_)
SumCacheCreationTokens(es) ==
    IF Len(es) = 0 THEN 0
    ELSE UsageCount(Head(es), "cache_creation_input_tokens") + SumCacheCreationTokens(Tail(es))

RECURSIVE SumCacheReadTokens(_)
SumCacheReadTokens(es) ==
    IF Len(es) = 0 THEN 0
    ELSE UsageCount(Head(es), "cache_read_input_tokens") + SumCacheReadTokens(Tail(es))

\* options.excludeCache ? baseInputTokens : baseInputTokens + cache creation + cache read
TotalInputTokensAlwaysCache(base, creation, read, exclude) == base + creation + read

TotalInputTokens(base, creation, read, exclude) ==
    IF exclude THEN base ELSE base + creation + read

Unknown == <<"u", "n", "k", "n", "o", "w", "n">>

\* entry.message?.model || "unknown"
ModelOf(e) ==
    IF e.message.t = "absent" THEN Unknown
    ELSE IF e.message.v.model.t = "str" THEN e.message.v.model.v
    ELSE Unknown

\* one iteration of the model breakdown loop: the Map's values in insertion order
BreakdownEntry(bd, e, exclude) ==
    LET model    == ModelOf(e)
        inTok    == IF MessageUsage(e).t = "absent" THEN 0 ELSE MessageUsage(e).v.input_tokens
        outTok   == IF MessageUsage(e).t = "absent" THEN 0 ELSE MessageUsage(e).v.output_tokens
        creation == UsageCount(e, "cache_creation_input_tokens")
        read     == UsageCount(e, "cache_read_input_tokens")
        total    == IF exclude THEN inTok + outTok ELSE inTok + outTok + creation + read
        add(x)   == [model               |-> model,
                     count               |-> x.count + 1,
                     inputTokens         |-> x.inputTokens + inTok,
                     outputTokens        |-> x.outputTokens + outTok,
                     cacheCreationTokens |-> x.cacheCreationTokens + creation,
                     cacheReadTokens     |-> x.cacheReadTokens + read,
                     totalTokens         |-> x.totalTokens + total]
        zero     == [model |-> model, count |-> 0, inputTokens |-> 0, outputTokens |-> 0,
                     cacheCreationTokens |-> 0, cacheReadTokens |-> 0, totalTokens |-> 0]
    IN  IF \E i \in 1..Len(bd) : bd[i].model = model
        THEN [i \in 1..Len(bd) |-> IF bd[i].model = model THEN add(bd[i]) ELSE bd[i]]
        ELSE Append(bd, add(zero))

RECURSIVE ModelBreakdown(_, _, _)
ModelBreakdown(es, bd, exclude) ==
    IF Len(es) = 0 THEN bd
    ELSE ModelBreakdown(Tail(es), BreakdownEntry(bd, Head(es), exclude), exclude)

\* dates[i]?.split("T")[0]
BeforeT(ts) ==
    LET at == {i \in 1..Len(ts) : ts[i] = "T"}
    IN  IF at = {} THEN ts
        ELSE SubSeq(ts, 1, (CHOOSE i \in at : \A k \in at : i <= k) - 1)

\* the first and the last of the timestamps in sort() order
FirstTimestamp(es) ==
    LET T == {es[i].timestamp : i \in 1..Len(es)}
    IN  CHOOSE t \in T : \A u \in T : t = u \/ StrLess(t, u)

LastTimestamp(es) ==
    LET T == {es[i].timestamp : i \in 1..Len(es)}
    IN  CHOOSE t \in T : \A u \in T : t = u \/ StrLess(u, t)

\* dailyUsage.find(day => day.totalTokens === maxDailyTokens)?.date
MaxDailyDate(daily, maxDaily) ==
    LET hits == {i \in 1..Len(daily) : daily[i].totalTokens = maxDaily}
    IN  IF hits = {} THEN Absent
        ELSE Str(daily[CHOOSE i \in hits : \A k \in hits : i <= k].date)

\* calculateUsageStatistics; aggregateByDay takes one argument, the second
\* one passed to it (options.excludeCache) has no effect.  avgDailyTokens is
\* the fraction num / den.
CalculateUsageStatistics(es, exclude) ==
    LET base     == SumInputTokens(es)
        output   == SumOutputTokens(es)
        creation == SumCacheCreationTokens(es)
        read     == SumCacheReadTokens(es)
        input    == TotalInputTokens(base, creation, read, exclude)
        daily    == AggregateByDay(es)
        maxDaily == MaxOfDays(daily)
    IN  [totalEntries             |-> Len(es),
         totalInputTokens         |-> input,
         totalOutputTokens        |-> output,
         totalCacheCreationTokens |-> creation,
         totalCacheReadTokens     |-> read,
         totalTokens              |-> input + output,
         firstDate                |-> IF Len(es) = 0 THEN Absent ELSE Str(BeforeT(FirstTimestamp(es))),
         lastDate                 |-> IF Len(es) = 0 THEN Absent ELSE Str(BeforeT(LastTimestamp(es))),
         dailyUsage               |-> daily,
         avgDailyTokens           |-> IF Len(daily) > 0
                                      THEN [num |-> input + output, den |-> Len(daily)]
                                      ELSE [num |-> 0, den |-> 1],
         maxDailyTokens           |-> maxDaily,
         maxDailyDate             |-> MaxDailyDate(daily, maxDaily),
         modelBreakdown           |-> ModelBreakdown(es, <<>>, exclude)]

\* displayStatistics: the numbers it prints
DisplayStatistics(st) ==
    [inputTokens  |-> st.totalInputTokens - st.totalCacheCreationTokens
                         - st.totalCacheReadTokens,
     outputTokens |-> st.totalOutputTokens,
     totalTokens  |-> st.totalTokens,
     activeDays   |-> Len(st.dailyUsage),
     conversations |-> st.totalEntries,
     peakDailyUsage |-> st.maxDailyTokens]

NoStats == [totalEntries |-> 0, totalInputTokens |-> 0, totalOutputTokens |-> 0,
            totalCacheCreationTokens |-> 0, totalCacheReadTokens |-> 0,
            totalTokens |-> 0, firstDate |-> Absent, lastDate |-> Absent,
            dailyUsage |-> <<>>, avgDailyTokens |-> [num |-> 0, den |-> 1],
            maxDailyTokens |-> 0, maxDailyDate |-> Absent, modelBreakdown |-> <<>>]

NoFigures == [inputTokens |-> 0, outputTokens |-> 0, totalTokens |-> 0, activeDays |-> 0,
              conversations |-> 0, peakDailyUsage |-> 0]

(***************************************************************************)
(* Inputs.                                                                 *)
(***************************************************************************)
IsoString(y, m, d, h) ==
    Pad(y, 4) \o <<"-">> \o Pad(m, 2) \o <<"-">> \o Pad(d, 2) \o <<"T">> \o Pad(h, 2)
        \o <<":", "0", "0", ":", "0", "0", "Z">>

T1 == IsoString(2024, 6, 1, 10)

T2 == IsoString(2024, 6, 1, 23)

T3 == IsoString(2024, 6, 2, 1)

NotADate == <<"x", "x">>

UsageJson(i, o) == Obj([input_tokens |-> i, output_tokens |-> o])

EntryJson(ts, rid, mid, usage) ==
    Obj([timestamp |-> ts, requestId |-> rid, message |-> Obj([id |-> mid, usage |-> usage])])

\* lines that exercise the validator
ParseLineSamples ==
    {BlankLine, TextLine, JsonLine(Num(7)),
     JsonLine(EntryJson(Num(5), Absent, Absent, UsageJson(Num(1), Num(2)))),
     JsonLine(EntryJson(Absent, Absent, Absent, UsageJson(Num(1), Num(2)))),
     JsonLine(EntryJson(Str(NotADate), Absent, Absent, UsageJson(Num(1), Num(2)))),
     JsonLine(EntryJson(Str(T1), Num(7), Absent, UsageJson(Num(1), Num(2)))),
     JsonLine(EntryJson(Str(T1), Str(<<>>), Str(<<>>), UsageJson(Num(1), Num(2)))),
     JsonLine(EntryJson(Str(T1), Absent, Absent, UsageJson(Str(<<"1">>), Num(1))))}
    \cup
    {JsonLine(Obj([timestamp |-> Str(T1), requestId |-> Absent, message |-> msg])) :
        msg \in {Absent, Obj([id |-> Absent, usage |-> Absent])}
                \cup {Obj([id |-> Str(<<"b">>), usage |-> UsageJson(Num(io[1]), Num(io[2]))]) :
                        io \in {<<1, 2>>, <<0, 0>>, <<0 - 1, 2>>, <<2, 0 - 1>>, <<0 - 1, 0 - 1>>}}}

\* lines that exercise deduplication and aggregation
LoadLineSamples ==
    {JsonLine(EntryJson(Str(T1), Str(<<"a">>), Str(<<"b">>), UsageJson(Num(1), Num(2)))),
     JsonLine(EntryJson(Str(T1), Str(<<"a">>), Str(<<"b">>), UsageJson(Num(3), Num(4)))),
     JsonLine(EntryJson(Str(T2), Str(<<"a">>), Str(<<"b">>), UsageJson(Num(5), Num(0)))),
     JsonLine(EntryJson(Str(NotADate), Str(<<"a">>), Str(<<"b">>), UsageJson(Num(1), Num(1)))),
     JsonLine(EntryJson(Str(T3), Absent, Absent, UsageJson(Num(0 - 1), Num(3))))}

\* all sequences over S of length at most n
SeqsUpTo(S, n) == UNION {[1..k -> S] : k \in 0..n}

\* the lines cut into k files at the positions cuts (non-decreasing)
CutFiles(lines, cuts, k) ==
    [i \in 1..k |->
        [readable |-> TRUE,
         lines    |-> SubSeq(lines, (IF i = 1 THEN 0 ELSE cuts[i - 1]) + 1,
                                    IF i = k THEN Len(lines) ELSE cuts[i])]]

\* the positions at which n lines can be cut into k files
Cuts(n, k) ==
    {c \in [1..(k - 1) -> 0..n] : \A i \in 1..(k - 1) : (i > 1 => c[i - 1] <= c[i])}

\* a file that cannot be read is shown without content
WithUnreadable(fs) ==
    {[i \in 1..Len(fs) |-> IF i \in u THEN [readable |-> FALSE, lines |-> <<>>] ELSE fs[i]] :
        u \in {v \in SUBSET (1..Len(fs)) : \A i \in v : Len(fs[i].lines) = 0}}

DayRecord(date, n) ==
    [date |-> FormatDate(date), totalTokens |-> n, inputTokens |-> n, outputTokens |-> 0,
     entryCount |-> 1]

RECURSIVE AscendingDays(_, _)
AscendingDays(dates, f) ==
    IF dates = {} THEN <<>>
    ELSE LET d == CHOOSE x \in dates : \A z \in dates : x <= z
         IN  <<DayRecord(d, f[d])>> \o AscendingDays(dates \ {d}, f)

\* DailyUsage lists as aggregateByDay returns them: one record per date, ascending
DailySamples(y, sm) ==
    LET cand == {JSDate(y, sm - 1, 1), JSDate(y + 1, sm - 1, 0)}
    IN  UNION {{AscendingDays(ds, f) : f \in [ds -> {1, 4}]} :
                  ds \in {x \in SUBSET cand : Cardinality(x) <= MaxDays}}

\* validated entries as parseJsonlFile returns them
EntryOf(ts, rid, mid, i, o) ==
    SafeParse(EntryJson(Str(ts), rid, mid, UsageJson(Num(i), Num(o)))).data

FilterEntrySamples ==
    {EntryOf(T1, Str(<<"a">>), Str(<<"b">>), 1, 2),
     EntryOf(T2, Str(<<"a">>), Str(<<"b">>), 5, 0),
     EntryOf(T3, Absent, Absent, 0, 3),
     EntryOf(NotADate, Str(<<"a">>), Str(<<"b">>), 1, 1)}

\* --from / --to: not given, empty, a day, the next day, a day without padding
RangeSamples ==
    {Absent, Str(<<>>), Str(SubSeq(T1, 1, 10)), Str(SubSeq(T3, 1, 10)),
     Str(<<"2", "0", "2", "4", "-", "6", "-", "2">>)}

\* directory entries
FileEntry(jsonl, readable, lines) ==
    [kind |-> "file", jsonl |-> jsonl, readable |-> readable, lines |-> lines]

DirEntry(listable, dirents) == [kind |-> "dir", listable |-> listable, entries |-> dirents]

EntryLine(ts, rid, mid, i, o) == JsonLine(EntryJson(Str(ts), rid, mid, UsageJson(Num(i), Num(o))))

\* file contents: one entry; an entry of the next local day and a duplicate of
\* the first file's key; an entry whose timestamp is no date; an entry whose
\* token counts sum below zero
File1 == <<EntryLine(T1, Str(<<"a">>), Str(<<"b">>), 1, 2)>>

File2 == <<EntryLine(T2, Str(<<"a">>), Str(<<"b">>), 5, 0),
           EntryLine(T1, Str(<<"a">>), Str(<<"b">>), 3, 4)>>

File3 == <<EntryLine(NotADate, Str(<<"a">>), Str(<<"b">>), 1, 1)>>

File4 == <<EntryLine(T3, Absent, Absent, 0 - 5, 2)>>

\* two entries whose ids differ and whose joined keys are the same text
File5 == <<EntryLine(T1, Str(<<"a", "-", "b">>), Str(<<"c">>), 1, 1),
           EntryLine(T1, Str(<<"a">>), Str(<<"b", "-", "c">>), 2, 2)>>

DirEntrySamples ==
    {FileEntry(TRUE, TRUE, File1), FileEntry(TRUE, TRUE, File2),
     FileEntry(TRUE, TRUE, File3), FileEntry(TRUE, TRUE, File4),
     FileEntry(TRUE, FALSE, File2), FileEntry(FALSE, TRUE, File2),
     DirEntry(TRUE, <<FileEntry(TRUE, TRUE, File2), FileEntry(FALSE, TRUE, File4)>>),
     DirEntry(FALSE, <<FileEntry(TRUE, TRUE, File2)>>)}

\* discovered files: five that can be read and one that cannot
FileSamples ==
    {[readable |-> TRUE, lines |-> ls] : ls \in {File1, File2, File3, File4, File5}}
        \cup {[readable |-> FALSE, lines |-> File2]}

\* data directories: one that cannot be listed, and listable ones
DataDirSamples(n) ==
    {[listable |-> FALSE, entries |-> <<FileEntry(TRUE, TRUE, File1)>>]}
        \cup {[listable |-> TRUE, entries |-> ds] : ds \in SeqsUpTo(DirEntrySamples, n)}

\* --from / --to of the stats command
DayBounds == {Absent, Str(SubSeq(T1, 1, 10)), Str(SubSeq(T3, 1, 10))}

\* validated entries with a model and cache token counts
StatsEntryOf(ts, rid, model, i, o, creation, read) ==
    SafeParse(Obj([timestamp |-> Str(ts), requestId |-> Str(rid),
                   message |-> Obj([id |-> Str(<<"m">>), model |-> model,
                                    usage |-> Obj([input_tokens |-> Num(i),
                                                   output_tokens |-> Num(o),
                                                   cache_creation_input_tokens |-> creation,
                                                   cache_read_input_tokens |-> read])])])).data

StatsEntrySamples ==
    {StatsEntryOf(T1, <<"a">>, Str(<<"o">>), 1, 2, Num(10), Num(20)),
     StatsEntryOf(T2, <<"b">>, Absent, 5, 0, Absent, Num(7)),
     StatsEntryOf(T3, <<"c">>, Str(<<"o">>), 0, 3, Absent, Absent),
     StatsEntryOf(T2, <<"d">>, Str(<<"s">>), 4, 4, Num(1), Absent)}

\* loaded entries on the first day, inside and on the last day of the displayed
\* periods, the last one at the local midnight that starts the last day east of
\* UTC
ShowEntrySamples ==
    {EntryOf(IsoString(2024, 1, 1, 10), Str(<<"a">>), Absent, 1, 2),
     EntryOf(T1, Str(<<"b">>), Absent, 5, 0),
     EntryOf(IsoString(2024, 12, 31, 10), Str(<<"c">>), Absent, 0, 3),
     EntryOf(IsoString(2024, 12, 31, 20), Str(<<"d">>), Absent, 2, 2),
     EntryOf(IsoString(2024, 12, 30, 22), Str(<<"e">>), Absent, 3, 1)}

\* the non-empty lists of at most n different entries
DistinctSeqs(S, n) ==
    {q \in SeqsUpTo(S, n) : Len(q) > 0 /\ \A i, k \in 1..Len(q) : i # k => q[i] # q[k]}

NoMap == [year |-> 0, startMonth |-> 1, endMonth |-> 12, weeks |-> <<>>,
          totalTokens |-> 0, maxDailyTokens |-> 0]

(***************************************************************************)
(* parseJsonlFile on one file.                                             *)
(***************************************************************************)
InitParse ==
    /\ pc = "parse"
    /\ tz = TzHours
    /\ \E ls \in SeqsUpTo(ParseLineSamples, MaxParseLines) :
          files = <<[readable |-> TRUE, lines |-> ls]>>
    /\ entries = <<>>
    /\ dailyMap = <<>> /\ aggPos = 0 /\ dailyUsage = <<>> /\ thrown = FALSE
    /\ tokens = 0 /\ maxTokens = 0 /\ level = 0
    /\ year = MinYear /\ startMonth = 1 /\ map = NoMap
    /\ from = Absent
    /\ to = Absent
    /\ filtered = <<>>
    /\ command = "none"
    /\ dataDir = NoDir
    /\ format = "none"
    /\ exitCode = 0
    /\ printed = <<>>
    /\ stats = NoStats
    /\ inputDate = 0
    /\ formatted = <<>>
    /\ parsedDate = 0
    /\ roundTrip = <<>>
    /\ excludeCache = FALSE
    /\ figures = NoFigures

ParseJsonlFileCall ==
    /\ pc = "parse"
    /\ entries' = ParseJsonlFile(files[1])
    /\ pc' = "parsed"
    /\ UNCHANGED <<tz, files, dailyMap, aggPos, dailyUsage, thrown,
                   tokens, maxTokens, level, year, startMonth, map,
                   from, to, filtered,
                   command, dataDir, format, exitCode, printed, stats,
                   inputDate, formatted, parsedDate, roundTrip,
                   excludeCache, figures>>

NextParse == ParseJsonlFileCall

SpecParse == InitParse /\ [][NextParse]_vars

(***************************************************************************)
(* loadUsageData, then aggregateByDay on its result.  The discovered files  *)
(* are at most MaxFiles files holding at most MaxLoadLines lines together. *)
(***************************************************************************)
Init ==
    /\ pc = "load"
    /\ tz \in {0 - TzHours, TzHours}
    /\ \E ls \in SeqsUpTo(LoadLineSamples, MaxLoadLines), k \in 0..MaxFiles :
          \E c \in Cuts(Len(ls), k) : files \in WithUnreadable(CutFiles(ls, c, k))
    /\ entries = <<>>
    /\ dailyMap = <<>> /\ aggPos = 0 /\ dailyUsage = <<>> /\ thrown = FALSE
    /\ tokens = 0 /\ maxTokens = 0 /\ level = 0
    /\ year = MinYear /\ startMonth = 1 /\ map = NoMap
    /\ from = Absent
    /\ to = Absent
    /\ filtered = <<>>
    /\ command = "none"
    /\ dataDir = NoDir
    /\ format = "none"
    /\ exitCode = 0
    /\ printed = <<>>
    /\ stats = NoStats
    /\ inputDate = 0
    /\ formatted = <<>>
    /\ parsedDate = 0
    /\ roundTrip = <<>>
    /\ excludeCache = FALSE
    /\ figures = NoFigures

LoadUsageDataCall ==
    /\ pc = "load"
    /\ entries' = LoadUsageData(files)
    /\ pc' = "aggregate"
    /\ UNCHANGED <<tz, files, dailyMap, aggPos, dailyUsage, thrown,
                   tokens, maxTokens, level, year, startMonth, map,
                   from, to, filtered,
                   command, dataDir, format, exitCode, printed, stats,
                   inputDate, formatted, parsedDate, roundTrip,
                   excludeCache, figures>>

\* one iteration of the for loop of aggregateByDay; format() throws a RangeError
\* on the Invalid Date
AggregateByDayStep ==
    /\ pc = "aggregate"
    /\ aggPos < Len(entries)
    /\ LET e == entries[aggPos + 1]
       IN  IF MessageUsage(e).t = "absent"
           THEN /\ aggPos' = aggPos + 1
                /\ UNCHANGED <<pc, dailyMap, thrown>>
           ELSE IF NewDate(e.timestamp) = InvalidDate
           THEN /\ thrown' = TRUE
                /\ pc' = "failed"
                /\ UNCHANGED <<dailyMap, aggPos>>
           ELSE /\ dailyMap' = FoldEntry(dailyMap, e)
                /\ aggPos' = aggPos + 1
                /\ UNCHANGED <<pc, thrown>>
    /\ UNCHANGED <<tz, files, entries, dailyUsage, tokens, maxTokens, level,
                   year, startMonth, map,
                   from, to, filtered,
                   command, dataDir, format, exitCode, printed, stats,
                   inputDate, formatted, parsedDate, roundTrip,
                   excludeCache, figures>>

AggregateByDayReturn ==
    /\ pc = "aggregate"
    /\ aggPos = Len(entries)
    /\ dailyUsage' = SortByDate(dailyMap)
    /\ pc' = "aggregated"
    /\ UNCHANGED <<tz, files, entries, dailyMap, aggPos, thrown,
                   tokens, maxTokens, level, year, startMonth, map,
                   from, to, filtered,
                   command, dataDir, format, exitCode, printed, stats,
                   inputDate, formatted, parsedDate, roundTrip,
                   excludeCache, figures>>

Next ==
    \/ LoadUsageDataCall
    \/ AggregateByDayStep
    \/ AggregateByDayReturn

Spec == Init /\ [][Next]_vars

(***************************************************************************)
(* getContributionLevel.                                                   *)
(***************************************************************************)
InitLevel ==
    /\ pc = "classify"
    /\ tz = TzHours
    /\ files = <<>> /\ entries = <<>>
    /\ dailyMap = <<>> /\ aggPos = 0 /\ dailyUsage = <<>> /\ thrown = FALSE
    /\ tokens \in 0..MaxTokens /\ maxTokens \in 0..MaxTokens /\ level = 0
    /\ year = MinYear /\ startMonth = 1 /\ map = NoMap
    /\ from = Absent
    /\ to = Absent
    /\ filtered = <<>>
    /\ command = "none"
    /\ dataDir = NoDir
    /\ format = "none"
    /\ exitCode = 0
    /\ printed = <<>>
    /\ stats = NoStats
    /\ inputDate = 0
    /\ formatted = <<>>
    /\ parsedDate = 0
    /\ roundTrip = <<>>
    /\ excludeCache = FALSE
    /\ figures = NoFigures

GetContributionLevelCall ==
    /\ pc = "classify"
    /\ level' = GetContributionLevel(tokens, maxTokens)
    /\ pc' = "classified"
    /\ UNCHANGED <<tz, files, entries, dailyMap, aggPos, dailyUsage, thrown,
                   tokens, maxTokens, year, startMonth, map,
                   from, to, filtered,
                   command, dataDir, format, exitCode, printed, stats,
                   inputDate, formatted, parsedDate, roundTrip,
                   excludeCache, figures>>

NextLevel == GetContributionLevelCall

SpecLevel == InitLevel /\ [][NextLevel]_vars

(***************************************************************************)
(* generateContributionMap.                                                *)
(***************************************************************************)
InitGrid ==
    /\ pc = "generate"
    /\ tz = TzHours
    /\ files = <<>> /\ entries = <<>>
    /\ dailyMap = <<>> /\ aggPos = 0 /\ thrown = FALSE
    /\ tokens = 0 /\ maxTokens = 0 /\ level = 0
    /\ year \in MinYear..MaxYear
    /\ startMonth \in 1..12
    /\ dailyUsage \in DailySamples(year, startMonth)
    /\ map = NoMap
    /\ from = Absent
    /\ to = Absent
    /\ filtered = <<>>
    /\ command = "none"
    /\ dataDir = NoDir
    /\ format = "none"
    /\ exitCode = 0
    /\ printed = <<>>
    /\ stats = NoStats
    /\ inputDate = 0
    /\ formatted = <<>>
    /\ parsedDate = 0
    /\ roundTrip = <<>>
    /\ excludeCache = FALSE
    /\ figures = NoFigures

GenerateContributionMapCall ==
    /\ pc = "generate"
    /\ map' = GenerateContributionMap(dailyUsage, year, startMonth)
    /\ pc' = "generated"
    /\ UNCHANGED <<tz, files, entries, dailyMap, aggPos, dailyUsage, thrown,
                   tokens, maxTokens, level, year, startMonth,
                   from, to, filtered,
                   command, dataDir, format, exitCode, printed, stats,
                   inputDate, formatted, parsedDate, roundTrip,
                   excludeCache, figures>>

NextGrid == GenerateContributionMapCall

SpecGrid == InitGrid /\ [][NextGrid]_vars

(***************************************************************************)
(* filterByDateRange.                                                      *)
(***************************************************************************)
InitFilter ==
    /\ pc = "filter"
    /\ tz \in {0 - TzHours, TzHours}
    /\ files = <<>>
    /\ entries \in SeqsUpTo(FilterEntrySamples, MaxFilterEntries)
    /\ dailyMap = <<>> /\ aggPos = 0 /\ dailyUsage = <<>> /\ thrown = FALSE
    /\ tokens = 0 /\ maxTokens = 0 /\ level = 0
    /\ year = MinYear /\ startMonth = 1 /\ map = NoMap
    /\ from \in RangeSamples
    /\ to \in RangeSamples
    /\ filtered = <<>>
    /\ command = "none"
    /\ dataDir = NoDir
    /\ format = "none"
    /\ exitCode = 0
    /\ printed = <<>>
    /\ stats = NoStats
    /\ inputDate = 0
    /\ formatted = <<>>
    /\ parsedDate = 0
    /\ roundTrip = <<>>
    /\ excludeCache = FALSE
    /\ figures = NoFigures

FilterByDateRangeCall ==
    /\ pc = "filter"
    /\ IF FilterThrows(entries)
       THEN /\ thrown' = TRUE
            /\ pc' = "failed"
            /\ UNCHANGED filtered
       ELSE /\ filtered' = FilterByDateRange(entries, from, to)
            /\ pc' = "filtered"
            /\ UNCHANGED thrown
    /\ UNCHANGED <<tz, files, entries, dailyMap, aggPos, dailyUsage,
                   tokens, maxTokens, level, year, startMonth, map,
                   from, to,
                   command, dataDir, format, exitCode, printed, stats,
                   inputDate, formatted, parsedDate, roundTrip,
                   excludeCache, figures>>

NextFilter == FilterByDateRangeCall

SpecFilter == InitFilter /\ [][NextFilter]_vars

(***************************************************************************)
(* The commands: showCommand and statsCommand, stage by stage.             *)
(***************************************************************************)
InitCmd ==
    /\ pc = "start"
    /\ tz \in {0 - TzHours, TzHours}
    /\ files = <<>> /\ entries = <<>>
    /\ dailyMap = <<>> /\ aggPos = 0 /\ dailyUsage = <<>> /\ thrown = FALSE
    /\ tokens = 0 /\ maxTokens = 0 /\ level = 0
    /\ map = NoMap
    /\ filtered = <<>>
    /\ dataDir \in DataDirSamples(MaxDirEntries)
    /\ command \in {"show", "stats"}
    /\ IF command = "show"
       THEN /\ year \in {2023, 2024}
            /\ startMonth \in {1, 7}
            /\ format \in {"terminal", "svg"}
            /\ from = Absent /\ to = Absent
       ELSE /\ year = MinYear /\ startMonth = 1
            /\ format \in {"json", "text"}
            /\ from \in DayBounds /\ to \in DayBounds
    /\ exitCode = 0
    /\ printed = <<>>
    /\ stats = NoStats
    /\ inputDate = 0
    /\ formatted = <<>>
    /\ parsedDate = 0
    /\ roundTrip = <<>>
    /\ excludeCache = FALSE
    /\ figures = NoFigures

\* both commands: loader.loadUsageData() and the check for no data
CmdLoadUsageData ==
    /\ pc = "start"
    /\ entries' = LoadUsageDataIn(dataDir)
    /\ IF NoDataFound(entries')
       THEN /\ printed' = printed \o <<"No Claude usage data found", "Looking for JSONL files in">>
            /\ pc' = "done"
       ELSE /\ pc' = "range"
            /\ UNCHANGED printed
    /\ UNCHANGED <<tz, files, dailyMap, aggPos, dailyUsage, thrown, tokens, maxTokens,
                   level, year, startMonth, map, from, to, filtered,
                   command, dataDir, format, exitCode, stats,
                   inputDate, formatted, parsedDate, roundTrip,
                   excludeCache, figures>>

\* showCommand with a filter that overwrites the loaded list
ShowRangeInPlace ==
    /\ pc = "range" /\ command = "show"
    /\ filtered' = ShowRangeEntries(entries, year, startMonth)
    /\ entries' = filtered'
    /\ IF Len(filtered') = 0
       THEN /\ printed' = printed \o <<"No Claude usage data found for">>
            /\ pc' = "done"
       ELSE /\ pc' = "build"
            /\ UNCHANGED printed
    /\ UNCHANGED <<tz, files, dailyMap, aggPos, dailyUsage, thrown, tokens,
                   maxTokens, level, year, startMonth, map, from, to,
                   command, dataDir, format, exitCode, stats,
                   inputDate, formatted, parsedDate, roundTrip,
                   excludeCache, figures>>

\* showCommand: the entries of the displayed period
ShowRange ==
    /\ pc = "range" /\ command = "show"
    /\ filtered' = ShowRangeEntries(entries, year, startMonth)
    /\ IF Len(filtered') = 0
       THEN /\ printed' = printed \o <<"No Claude usage data found for">>
            /\ pc' = "done"
       ELSE /\ pc' = "build"
            /\ UNCHANGED printed
    /\ UNCHANGED <<tz, files, entries, dailyMap, aggPos, dailyUsage, thrown, tokens,
                   maxTokens, level, year, startMonth, map, from, to,
                   command, dataDir, format, exitCode, stats,
                   inputDate, formatted, parsedDate, roundTrip,
                   excludeCache, figures>>

\* showCommand: aggregateByDay and generateContributionMap; an exception goes
\* to the catch, which exits with status 1
ShowBuild ==
    /\ pc = "build" /\ command = "show"
    /\ IF AggregateThrows(filtered)
       THEN /\ thrown' = TRUE
            /\ printed' = printed \o <<"Error generating contribution map">>
            /\ exitCode' = 1
            /\ pc' = "done"
            /\ UNCHANGED <<dailyUsage, map>>
       ELSE /\ dailyUsage' = AggregateByDay(filtered)
            /\ map' = GenerateContributionMap(dailyUsage', year, startMonth)
            /\ pc' = "output"
            /\ UNCHANGED <<thrown, printed, exitCode>>
    /\ UNCHANGED <<tz, files, entries, dailyMap, aggPos, tokens, maxTokens, level,
                   year, startMonth, from, to, filtered,
                   command, dataDir, format, stats,
                   inputDate, formatted, parsedDate, roundTrip,
                   excludeCache, figures>>

\* showCommand: the output stage; writeFile may fail
ShowOutput ==
    /\ pc = "output" /\ command = "show"
    /\ \/ /\ format = "terminal"
          /\ printed' = printed \o <<"map">>
          /\ UNCHANGED <<thrown, exitCode>>
       \/ /\ format = "svg"
          /\ printed' = printed \o <<"SVG file saved">>
          /\ UNCHANGED <<thrown, exitCode>>
       \/ /\ format = "svg"
          /\ thrown' = TRUE
          /\ printed' = printed \o <<"Error generating contribution map">>
          /\ exitCode' = 1
    /\ pc' = "done"
    /\ UNCHANGED <<tz, files, entries, dailyMap, aggPos, dailyUsage, tokens, maxTokens,
                   level, year, startMonth, map, from, to, filtered,
                   command, dataDir, format, stats,
                   inputDate, formatted, parsedDate, roundTrip,
                   excludeCache, figures>>

\* statsCommand: filterByDateRange; an exception goes to the catch
StatsFilter ==
    /\ pc = "range" /\ command = "stats"
    /\ IF FilterThrows(entries)
       THEN /\ thrown' = TRUE
            /\ printed' = printed \o <<"Error generating statistics">>
            /\ exitCode' = 1
            /\ pc' = "done"
            /\ UNCHANGED filtered
       ELSE /\ filtered' = FilterByDateRange(entries, from, to)
            /\ IF Len(filtered') = 0
               THEN /\ printed' = printed \o <<"No entries found for the specified date range">>
                    /\ pc' = "done"
               ELSE /\ pc' = "build"
                    /\ UNCHANGED printed
            /\ UNCHANGED <<thrown, exitCode>>
    /\ UNCHANGED <<tz, files, entries, dailyMap, aggPos, dailyUsage, tokens, maxTokens,
                   level, year, startMonth, map, from, to,
                   command, dataDir, format, stats,
                   inputDate, formatted, parsedDate, roundTrip,
                   excludeCache, figures>>

\* statsCommand: calculateUsageStatistics
StatsCalculate ==
    /\ pc = "build" /\ command = "stats"
    /\ IF AggregateThrows(filtered)
       THEN /\ thrown' = TRUE
            /\ printed' = printed \o <<"Error generating statistics">>
            /\ exitCode' = 1
            /\ pc' = "done"
            /\ UNCHANGED stats
       ELSE /\ stats' = CalculateUsageStatistics(filtered, excludeCache)
            /\ pc' = "output"
            /\ UNCHANGED <<thrown, printed, exitCode>>
    /\ UNCHANGED <<tz, files, entries, dailyMap, aggPos, dailyUsage, tokens, maxTokens,
                   level, year, startMonth, map, from, to, filtered,
                   command, dataDir, format,
                   inputDate, formatted, parsedDate, roundTrip,
                   excludeCache, figures>>

\* statsCommand: outputAsJson or displayStatistics
StatsOutput ==
    /\ pc = "output" /\ command = "stats"
    /\ printed' = printed \o <<IF format = "json" THEN "json" ELSE "Claude Usage Statistics">>
    /\ figures' = IF format = "json" THEN figures ELSE DisplayStatistics(stats)
    /\ pc' = "done"
    /\ UNCHANGED <<tz, files, entries, dailyMap, aggPos, dailyUsage, thrown, tokens,
                   maxTokens, level, year, startMonth, map, from, to, filtered,
                   command, dataDir, format, exitCode, stats,
                   inputDate, formatted, parsedDate, roundTrip,
                   excludeCache>>

NextCmd ==
    \/ CmdLoadUsageData
    \/ ShowRange
    \/ ShowBuild
    \/ ShowOutput
    \/ StatsFilter
    \/ StatsCalculate
    \/ StatsOutput

SpecCmd == InitCmd /\ [][NextCmd]_vars

\* the same commands, stage by stage, on data directories of their own bound
InitStages ==
    /\ pc = "start"
    /\ tz \in {0 - TzHours, TzHours}
    /\ files = <<>> /\ entries = <<>>
    /\ dailyMap = <<>> /\ aggPos = 0 /\ dailyUsage = <<>> /\ thrown = FALSE
    /\ tokens = 0 /\ maxTokens = 0 /\ level = 0
    /\ map = NoMap
    /\ filtered = <<>>
    /\ dataDir \in DataDirSamples(MaxStageDirEntries)
    /\ command \in {"show", "stats"}
    /\ IF command = "show"
       THEN /\ year \in {2023, 2024}
            /\ startMonth \in {1, 7}
            /\ format \in {"terminal", "svg"}
            /\ from = Absent /\ to = Absent
       ELSE /\ year = MinYear /\ startMonth = 1
            /\ format \in {"json", "text"}
            /\ from \in DayBounds /\ to \in DayBounds
    /\ exitCode = 0
    /\ printed = <<>>
    /\ stats = NoStats
    /\ inputDate = 0
    /\ formatted = <<>>
    /\ parsedDate = 0
    /\ roundTrip = <<>>
    /\ excludeCache = FALSE
    /\ figures = NoFigures

SpecStages == InitStages /\ [][NextCmd]_vars

(***************************************************************************)
(* formatDate and parseDate, one after the other.                          *)
(***************************************************************************)
InitDate ==
    /\ pc = "format"
    /\ tz \in {0 - TzHours, TzHours}
    /\ files = <<>> /\ entries = <<>>
    /\ dailyMap = <<>> /\ aggPos = 0 /\ dailyUsage = <<>> /\ thrown = FALSE
    /\ tokens = 0 /\ maxTokens = 0 /\ level = 0
    /\ year = MinYear /\ startMonth = 1 /\ map = NoMap
    /\ from = Absent /\ to = Absent /\ filtered = <<>>
    /\ command = "none" /\ dataDir = NoDir /\ format = "none"
    /\ exitCode = 0 /\ printed = <<>> /\ stats = NoStats
    /\ \E y \in MinYear..MaxYear, m \in 0..11, h \in {0, 23} : inputDate = JSDate(y, m, 1) + h
    /\ formatted = <<>>
    /\ parsedDate = 0
    /\ roundTrip = <<>>
    /\ excludeCache = FALSE
    /\ figures = NoFigures

FormatDateCall ==
    /\ pc = "format"
    /\ formatted' = FormatDate(inputDate)
    /\ pc' = "parse"
    /\ UNCHANGED <<tz, files, entries, dailyMap, aggPos, dailyUsage, thrown, tokens,
                   maxTokens, level, year, startMonth, map, from, to, filtered,
                   command, dataDir, format, exitCode, printed, stats,
                   inputDate, parsedDate, roundTrip,
                   excludeCache, figures>>

ParseDateCall ==
    /\ pc = "parse"
    /\ parsedDate' = ParseDate(formatted)
    /\ pc' = "reformat"
    /\ UNCHANGED <<tz, files, entries, dailyMap, aggPos, dailyUsage, thrown, tokens,
                   maxTokens, level, year, startMonth, map, from, to, filtered,
                   command, dataDir, format, exitCode, printed, stats,
                   inputDate, formatted, roundTrip,
                   excludeCache, figures>>

FormatParsedDateCall ==
    /\ pc = "reformat"
    /\ roundTrip' = FormatDate(parsedDate)
    /\ pc' = "roundtrip"
    /\ UNCHANGED <<tz, files, entries, dailyMap, aggPos, dailyUsage, thrown, tokens,
                   maxTokens, level, year, startMonth, map, from, to, filtered,
                   command, dataDir, format, exitCode, printed, stats,
                   inputDate, formatted, parsedDate,
                   excludeCache, figures>>

NextDate ==
    \/ FormatDateCall
    \/ ParseDateCall
    \/ FormatParsedDateCall

SpecDate == InitDate /\ [][NextDate]_vars

(***************************************************************************)
(* loadUsageData on whole files, for the order in which they are read.     *)
(***************************************************************************)
InitLoadOrder ==
    /\ pc = "load"
    /\ tz \in {0 - TzHours, TzHours}
    /\ files \in SeqsUpTo(FileSamples, MaxOrderFiles)
    /\ entries = <<>>
    /\ dailyMap = <<>> /\ aggPos = 0 /\ dailyUsage = <<>> /\ thrown = FALSE
    /\ tokens = 0 /\ maxTokens = 0 /\ level = 0
    /\ year = MinYear /\ startMonth = 1 /\ map = NoMap
    /\ from = Absent /\ to = Absent /\ filtered = <<>>
    /\ command = "none" /\ dataDir = NoDir /\ format = "none"
    /\ exitCode = 0 /\ printed = <<>> /\ stats = NoStats
    /\ inputDate = 0 /\ formatted = <<>> /\ parsedDate = 0 /\ roundTrip = <<>>
    /\ excludeCache = FALSE
    /\ figures = NoFigures

NextLoadOrder == LoadUsageDataCall

SpecLoadOrder == InitLoadOrder /\ [][NextLoadOrder]_vars

(***************************************************************************)
(* calculateUsageStatistics and displayStatistics on the filtered entries. *)
(***************************************************************************)
InitStats ==
    /\ pc = "calculate"
    /\ tz \in {0 - TzHours, TzHours}
    /\ files = <<>>
    /\ filtered \in DistinctSeqs(StatsEntrySamples, MaxStatsEntries)
    /\ entries = filtered
    /\ dailyMap = <<>> /\ aggPos = 0 /\ dailyUsage = <<>> /\ thrown = FALSE
    /\ tokens = 0 /\ maxTokens = 0 /\ level = 0
    /\ year = MinYear /\ startMonth = 1 /\ map = NoMap
    /\ from = Absent /\ to = Absent
    /\ command = "stats" /\ dataDir = NoDir /\ format = "text"
    /\ exitCode = 0 /\ printed = <<>> /\ stats = NoStats
    /\ inputDate = 0 /\ formatted = <<>> /\ parsedDate = 0 /\ roundTrip = <<>>
    /\ excludeCache \in BOOLEAN
    /\ figures = NoFigures

CalculateUsageStatisticsCall ==
    /\ pc = "calculate"
    /\ stats' = CalculateUsageStatistics(filtered, excludeCache)
    /\ pc' = "display"
    /\ UNCHANGED <<tz, files, entries, dailyMap, aggPos, dailyUsage, thrown, tokens,
                   maxTokens, level, year, startMonth, map, from, to, filtered,
                   command, dataDir, format, exitCode, printed,
                   inputDate, formatted, parsedDate, roundTrip,
                   excludeCache, figures>>

DisplayStatisticsCall ==
    /\ pc = "display"
    /\ figures' = DisplayStatistics(stats)
    /\ pc' = "displayed"
    /\ UNCHANGED <<tz, files, entries, dailyMap, aggPos, dailyUsage, thrown, tokens,
                   maxTokens, level, year, startMonth, map, from, to, filtered,
                   command, dataDir, format, exitCode, printed, stats,
                   inputDate, formatted, parsedDate, roundTrip,
                   excludeCache>>

NextStats ==
    \/ CalculateUsageStatisticsCall
    \/ DisplayStatisticsCall

SpecStats == InitStats /\ [][NextStats]_vars

(***************************************************************************)
(* showCommand from the loaded entries on: the range filter, the grid and  *)
(* the output.                                                             *)
(***************************************************************************)
InitShow ==
    /\ pc = "range"
    /\ tz \in {0 - TzHours, TzHours}
    /\ files = <<>>
    /\ entries \in DistinctSeqs(ShowEntrySamples, MaxShowEntries)
    /\ filtered = <<>>
    /\ dailyMap = <<>> /\ aggPos = 0 /\ dailyUsage = <<>> /\ thrown = FALSE
    /\ tokens = 0 /\ maxTokens = 0 /\ level = 0
    /\ year \in {2023, 2024} /\ startMonth \in {1, 7} /\ map = NoMap
    /\ from = Absent /\ to = Absent
    /\ command = "show" /\ dataDir = NoDir /\ format \in {"terminal", "svg"}
    /\ exitCode = 0 /\ printed = <<>> /\ stats = NoStats
    /\ inputDate = 0 /\ formatted = <<>> /\ parsedDate = 0 /\ roundTrip = <<>>
    /\ excludeCache = FALSE
    /\ figures = NoFigures

NextShow ==
    \/ ShowRange
    \/ ShowBuild
    \/ ShowOutput

SpecShow == InitShow /\ [][NextShow]_vars

(***************************************************************************)
(* The civil calendar, computed on year-month-day directly: what the       *)
(* claims compare the Date arithmetic of the code against.                 *)
(***************************************************************************)
IsLeapYear(y) == (y % 4 = 0 /\ y % 100 # 0) \/ y % 400 = 0

DaysInMonth(y, m) ==
    IF m = 2 THEN (IF IsLeapYear(y) THEN 29 ELSE 28)
    ELSE IF m \in {4, 6, 9, 11} THEN 30 ELSE 31

DateText(y, m, d) == Pad(y, 4) \o <<"-">> \o Pad(m, 2) \o <<"-">> \o Pad(d, 2)

YearOf(s) == ToNumber(SubSeq(s, 1, 4))

MonthOf(s) == ToNumber(SubSeq(s, 6, 7))

DayOf(s) == ToNumber(SubSeq(s, 9, 10))

\* the calendar day after / before the day written "yyyy-MM-dd"
NextDateText(s) ==
    IF DayOf(s) < DaysInMonth(YearOf(s), MonthOf(s)) THEN DateText(YearOf(s), MonthOf(s), DayOf(s) + 1)
    ELSE IF MonthOf(s) < 12 THEN DateText(YearOf(s), MonthOf(s) + 1, 1)
    ELSE DateText(YearOf(s) + 1, 1, 1)

PrevDateText(s) ==
    IF DayOf(s) > 1 THEN DateText(YearOf(s), MonthOf(s), DayOf(s) - 1)
    ELSE IF MonthOf(s) > 1 THEN DateText(YearOf(s), MonthOf(s) - 1, DaysInMonth(YearOf(s), MonthOf(s) - 1))
    ELSE DateText(YearOf(s) - 1, 12, 31)

\* day of the week of y-m-d by the month-offset table, 0 = Sunday
MonthOffsets == <<0, 3, 2, 5, 0, 3, 5, 1, 4, 6, 2, 4>>

WeekdayOf(y, m, d) ==
    LET yy == IF m < 3 THEN y - 1 ELSE y
    IN  (yy + yy \div 4 - yy \div 100 + yy \div 400 + MonthOffsets[m] + d) % 7

IsSundayText(s) == WeekdayOf(YearOf(s), MonthOf(s), DayOf(s)) = 0

\* the local calendar day of a "YYYY-MM-DDTHH:mm:ssZ" timestamp in the zone tz
LocalDateText(ts) ==
    LET h == ToNumber(SubSeq(ts, 12, 13)) + tz
    IN  IF h >= 24 THEN NextDateText(SubSeq(ts, 1, 10))
        ELSE IF h < 0 THEN PrevDateText(SubSeq(ts, 1, 10))
        ELSE SubSeq(ts, 1, 10)

RECURSIVE SumOver(_, _)
SumOver(f, S) ==
    IF S = {} THEN 0
    ELSE LET x == CHOOSE z \in S : TRUE IN f[x] + SumOver(f, S \ {x})

\* the k-th smallest element of a set of numbers
KthSmallest(S, k) == CHOOSE i \in S : Cardinality({j \in S : j < i}) = k - 1

\* the lines of the readable files, files in discovery order, lines in file order
RECURSIVE AllLines(_)
AllLines(fs) ==
    IF Len(fs) = 0 THEN <<>>
    ELSE (IF Head(fs).readable THEN Head(fs).lines ELSE <<>>) \o AllLines(Tail(fs))

LineValidates(l) == l.kind = "json" /\ SafeParse(l.value).success

\* the entries of exactly the lines that validate, in line order
ValidEntries(ls) ==
    LET V == {i \in 1..Len(ls) : LineValidates(ls[i])}
    IN  [k \in 1..Cardinality(V) |-> SafeParse(ls[KthSmallest(V, k)].value).data]

EntryTokens(e) == MessageUsage(e).v.input_tokens + MessageUsage(e).v.output_tokens

\* the positions of the entries that are the first with their composite key
FirstOccurrences(es) ==
    {j \in 1..Len(es) : \A i \in 1..(j - 1) : DedupKey(es[i]) # DedupKey(es[j])}

(***************************************************************************)
(* Claims.                                                                 *)
(***************************************************************************)

\* C1: the list loadUsageData gets from deduplicateEntries is no longer than the
\* list of validated entries it was given, and no two of its entries have the
\* same composite key requestId-messageId-timestamp (missing ids empty).
C1_DedupNoSharedKey ==
    pc # "load" =>
        /\ Len(entries) <= Len(ValidEntries(AllLines(files)))
        /\ \A i, j \in 1..Len(entries) : i # j => DedupKey(entries[i]) # DedupKey(entries[j])

C1_Witness ==
    /\ pc = "aggregate"
    /\ Len(entries) >= 2
    /\ Len(entries) < Len(ValidEntries(AllLines(files)))

\* C2: of the entries sharing a composite key, loadUsageData keeps the first in
\* encounter order and drops the later ones, and each day's total after
\* aggregateByDay is the sum over the first-encountered entries only.
C2_FirstOccurrenceKept ==
    LET all   == ValidEntries(AllLines(files))
        first == FirstOccurrences(all)
    IN  /\ pc # "load" =>
            /\ Len(entries) = Cardinality(first)
            /\ \A k \in 1..Len(entries) : entries[k] = all[KthSmallest(first, k)]
        /\ pc = "aggregated" =>
            \A k \in 1..Len(dailyUsage) :
                dailyUsage[k].totalTokens =
                    SumOver([j \in 1..Len(all) |-> EntryTokens(all[j])],
                            {j \in first : LocalDateText(all[j].timestamp) = dailyUsage[k].date})

C2_Witness ==
    LET all == ValidEntries(AllLines(files))
    IN  /\ pc = "aggregated"
        /\ Len(files) = 2
        /\ Len(all) = 2
        /\ DedupKey(all[1]) = DedupKey(all[2])
        /\ EntryTokens(all[1]) # EntryTokens(all[2])
        /\ Len(dailyUsage) = 1
        /\ dailyUsage[1].totalTokens = EntryTokens(all[1])

\* C3: aggregateByDay returns, for each day, the sum of input_tokens +
\* output_tokens over exactly the entries whose timestamp falls on that local
\* date; every entry is counted in one day and one only.
C3_DayTotalsAreSums ==
    pc = "aggregated" =>
        /\ \A k \in 1..Len(dailyUsage) :
              dailyUsage[k].totalTokens =
                  SumOver([i \in 1..Len(entries) |-> EntryTokens(entries[i])],
                          {i \in 1..Len(entries) :
                              LocalDateText(entries[i].timestamp) = dailyUsage[k].date})
        /\ \A i \in 1..Len(entries) :
              Cardinality({k \in 1..Len(dailyUsage) :
                              dailyUsage[k].date = LocalDateText(entries[i].timestamp)}) = 1
        /\ SumOver([k \in 1..Len(dailyUsage) |-> dailyUsage[k].entryCount],
                   1..Len(dailyUsage)) = Len(entries)

C3_Witness ==
    /\ pc = "aggregated"
    /\ Len(entries) = 3
    /\ Len(dailyUsage) = 2
    /\ \E k \in 1..2 : dailyUsage[k].entryCount = 2 /\ dailyUsage[k].totalTokens > 0

\* C4: getContributionLevel is 0 for a count of 0 and otherwise 4, 3, 2 or 1 as
\* count/max is >= 0.75, >= 0.50, >= 0.25 or below, the breakpoints inclusive.
C4_LevelThresholds ==
    pc = "classified" =>
        /\ tokens = 0 => level = 0
        /\ tokens > 0 /\ 4 * tokens >= 3 * maxTokens => level = 4
        /\ tokens > 0 /\ 4 * tokens < 3 * maxTokens /\ 2 * tokens >= maxTokens => level = 3
        /\ tokens > 0 /\ 2 * tokens < maxTokens /\ 4 * tokens >= maxTokens => level = 2
        /\ tokens > 0 /\ 4 * tokens < maxTokens => level = 1
        /\ tokens = 100 /\ maxTokens = 400 => level = 2
        /\ tokens = 400 /\ maxTokens = 400 => level = 4

C4_Witness ==
    /\ pc = "classified"
    /\ tokens = 100 /\ maxTokens = 400
    /\ level = 2

\* C5: every entry parseJsonlFile accepts has input_tokens and output_tokens both
\* non-negative.
C5_AcceptedTokensNonNegative ==
    pc = "parsed" =>
        \A i \in 1..Len(entries) :
            /\ MessageUsage(entries[i]).v.input_tokens >= 0
            /\ MessageUsage(entries[i]).v.output_tokens >= 0

\* C6: every entry parseJsonlFile accepts has a timestamp that parses to a valid
\* date-time.
C6_AcceptedTimestampParses ==
    pc = "parsed" =>
        \A i \in 1..Len(entries) : NewDate(entries[i].timestamp) # InvalidDate

\* C7: parseJsonlFile returns exactly the entries of the lines that validate, in
\* line order; a line that is not JSON or fails the schema is skipped and the
\* lines before and after it are still returned.
C7_ParseKeepsValidLines ==
    pc = "parsed" => entries = ValidEntries(files[1].lines)

C7_Witness ==
    /\ pc = "parsed"
    /\ Len(files[1].lines) = 3
    /\ LineValidates(files[1].lines[1])
    /\ files[1].lines[2].kind = "text"
    /\ LineValidates(files[1].lines[3])
    /\ Len(entries) = 2

\* the dates of the day-cells of the generated grid
GridDates == {map.weeks[w].days[i].date : w \in 1..Len(map.weeks), i \in 1..7}

\* C8: every grid of generateContributionMap, for any year and start month
\* 1..12, has at most 53 week-columns of exactly 7 day-cells each.
C8_GridShape ==
    pc = "generated" =>
        /\ Len(map.weeks) <= 53
        /\ \A w \in 1..Len(map.weeks) : Len(map.weeks[w].days) = 7

C8_Witness ==
    /\ pc = "generated"
    /\ year = 2000 /\ startMonth = 1
    /\ Len(map.weeks) = 53
    /\ Len(map.weeks[53].days) = 7

\* C9: in every grid each week-column starts on a Sunday, its cells are that
\* Sunday and the six days after it, and the next column starts the day after
\* the column ends: read week by week the cells are consecutive calendar dates,
\* none missing and none repeated.
C9_ConsecutiveSundayWeeks ==
    pc = "generated" =>
        /\ \A w \in 1..Len(map.weeks) :
              /\ IsSundayText(map.weeks[w].days[1].date)
              /\ \A i \in 1..6 :
                    map.weeks[w].days[i + 1].date = NextDateText(map.weeks[w].days[i].date)
        /\ \A w \in 1..(Len(map.weeks) - 1) :
              map.weeks[w + 1].days[1].date = NextDateText(map.weeks[w].days[7].date)
        /\ Cardinality(GridDates) = 7 * Len(map.weeks)

C9_Witness ==
    /\ pc = "generated"
    /\ year = 2003 /\ startMonth = 7
    /\ Len(map.weeks) = 53
    /\ map.weeks[1].days[1].date = DateText(2003, 6, 29)
    /\ DateText(2004, 2, 29) \in GridDates
    /\ map.weeks[53].days[7].date = DateText(2004, 7, 3)

\* C10 as stated: in calendar-year mode every day of the year Y, Jan 1 to Dec 31,
\* has a day-cell in the grid.
C10_EveryDayOfYearHasCell ==
    pc = "generated" /\ startMonth = 1 =>
        \A m \in 1..12 : \A d \in 1..DaysInMonth(year, m) : DateText(year, m, d) \in GridDates

\* C10 amended: in calendar-year mode the columns are the first 53 Sunday-start
\* weeks from the Sunday on or before Jan 1 of Y, none starting after Dec 31;
\* every day from Jan 1 to Dec 30 has a day-cell, and Dec 31 has one unless Y is
\* a leap year that begins on a Saturday, whose 54th week the cap cuts off.
C10_YearCoveredUpToCap ==
    pc = "generated" /\ startMonth = 1 =>
        /\ IsSundayText(map.weeks[1].days[1].date)
        /\ DateText(year, 1, 1) \in {map.weeks[1].days[i].date : i \in 1..7}
        /\ \A w \in 2..Len(map.weeks) : YearOf(map.weeks[w].days[1].date) = year
        /\ \A m \in 1..12 : \A d \in 1..DaysInMonth(year, m) :
              (m # 12 \/ d # 31) => DateText(year, m, d) \in GridDates
        /\ (DateText(year, 12, 31) \in GridDates)
              <=> ~(IsLeapYear(year) /\ WeekdayOf(year, 1, 1) = 6)

C10_Witness ==
    /\ pc = "generated"
    /\ year = 2000 /\ startMonth = 1
    /\ map.weeks[1].days[1].date = DateText(1999, 12, 26)
    /\ DateText(2000, 12, 30) \in GridDates
    /\ DateText(2000, 12, 31) \notin GridDates

\* the days of the 12-month window that starts with month sm of the year y
WindowDates(y, sm) ==
    UNION {{DateText(y, m, d) : d \in 1..DaysInMonth(y, m)} : m \in sm..12}
    \cup UNION {{DateText(y + 1, m, d) : d \in 1..DaysInMonth(y + 1, m)} : m \in 1..(sm - 1)}

WindowLastDate(y, sm) == DateText(y + 1, sm - 1, DaysInMonth(y + 1, sm - 1))

\* the window holds a 29 February, so it has 366 days
WindowHasLeapDay(y, sm) == IF sm <= 2 THEN IsLeapYear(y) ELSE IsLeapYear(y + 1)

\* C11 as stated: in custom 12-month window mode, for every year Y and start
\* month M in 2..12, every day from the 1st of month M of Y to the last day of
\* the month before M in Y+1 has a day-cell in the grid.
C11_EveryDayOfWindowHasCell ==
    pc = "generated" /\ startMonth >= 2 =>
        \A s \in WindowDates(year, startMonth) : s \in GridDates

\* C11 amended: in custom window mode the columns are the first 53 Sunday-start
\* weeks from the Sunday on or before the 1st of month M of Y; every day of the
\* window but its last has a day-cell, and the last day has one unless the
\* window holds a 29 February and begins on a Saturday, whose 54th week the cap
\* cuts off.
C11_WindowCoveredUpToCap ==
    pc = "generated" /\ startMonth >= 2 =>
        /\ IsSundayText(map.weeks[1].days[1].date)
        /\ DateText(year, startMonth, 1) \in {map.weeks[1].days[i].date : i \in 1..7}
        /\ \A s \in WindowDates(year, startMonth) \ {WindowLastDate(year, startMonth)} :
              s \in GridDates
        /\ (WindowLastDate(year, startMonth) \in GridDates)
              <=> ~(WindowHasLeapDay(year, startMonth)
                     /\ WeekdayOf(year, startMonth, 1) = 6)

C11_Witness ==
    /\ pc = "generated"
    /\ year = 2003 /\ startMonth = 3
    /\ map.weeks[1].days[1].date = DateText(2003, 2, 23)
    /\ DateText(2004, 2, 28) \in GridDates
    /\ DateText(2004, 2, 29) \notin GridDates

\* C12: every day-cell's tokens are the totalTokens of the DailyUsage record
\* whose date string is the cell's date; a cell whose date has no record has 0
\* tokens and level 0.
C12_CellTokensFromDailyUsage ==
    pc = "generated" =>
        \A w \in 1..Len(map.weeks) : \A i \in 1..Len(map.weeks[w].days) :
            LET cell == map.weeks[w].days[i]
                hits == {k \in 1..Len(dailyUsage) : dailyUsage[k].date = cell.date}
            IN  IF hits = {}
                THEN cell.tokens = 0 /\ cell.level = 0
                ELSE \A k \in hits : cell.tokens = dailyUsage[k].totalTokens

C12_Witness ==
    /\ pc = "generated"
    /\ Len(dailyUsage) = 1
    /\ dailyUsage[1].totalTokens = 4
    /\ \E w \in 1..Len(map.weeks) : \E i \in 1..7 :
          /\ map.weeks[w].days[i].date = dailyUsage[1].date
          /\ map.weeks[w].days[i].tokens = 4
    /\ \E w \in 1..Len(map.weeks) : \E i \in 1..7 :
          /\ map.weeks[w].days[i].date # dailyUsage[1].date
          /\ map.weeks[w].days[i].tokens = 0
          /\ map.weeks[w].days[i].level = 0

\* the local calendar days of the entries that carry usage
UsageDates(es) == {LocalDateText(es[i].timestamp) :
                      i \in {j \in 1..Len(es) : MessageUsage(es[j]).t # "absent"}}

\* C13: aggregateByDay returns exactly one DailyUsage record per distinct
\* calendar date among the entries it counts, in strictly ascending order of
\* the date strings.
C13_OneRecordPerDateAscending ==
    pc = "aggregated" =>
        /\ {dailyUsage[k].date : k \in 1..Len(dailyUsage)} = UsageDates(entries)
        /\ Len(dailyUsage) = Cardinality(UsageDates(entries))
        /\ \A k \in 1..(Len(dailyUsage) - 1) :
              StrLess(dailyUsage[k].date, dailyUsage[k + 1].date)

C13_Witness ==
    /\ pc = "aggregated"
    /\ Len(entries) = 3
    /\ LocalDateText(entries[1].timestamp) = DateText(2024, 6, 2)
    /\ LocalDateText(entries[2].timestamp) = DateText(2024, 6, 1)
    /\ LocalDateText(entries[3].timestamp) = DateText(2024, 6, 2)
    /\ Len(dailyUsage) = 2
    /\ dailyUsage[1].date = DateText(2024, 6, 1)
    /\ dailyUsage[2].date = DateText(2024, 6, 2)

\* a bound of the range that was given: a non-empty string
Given(j) == j.t = "str" /\ j.v # <<>>

StrLeq(a, b) == a = b \/ StrLess(a, b)

\* C14: filterByDateRange(entries, from, to) keeps an entry exactly when its
\* local calendar date d satisfies from <= d (when from is given) and d <= to
\* (when to is given), both inclusive and compared as strings; the kept entries
\* stay in input order.
C14_FilterKeepsInRange ==
    pc = "filtered" =>
        LET K == {i \in 1..Len(entries) :
                     LET d == LocalDateText(entries[i].timestamp)
                     IN  /\ Given(from) => StrLeq(from.v, d)
                         /\ Given(to) => StrLeq(d, to.v)}
        IN  filtered = [k \in 1..Cardinality(K) |-> entries[KthSmallest(K, k)]]

C14_Witness ==
    /\ pc = "filtered"
    /\ from = Str(DateText(2024, 6, 1))
    /\ to = Str(DateText(2024, 6, 1))
    /\ Len(entries) = 2
    /\ LocalDateText(entries[1].timestamp) = DateText(2024, 6, 2)
    /\ LocalDateText(entries[2].timestamp) = DateText(2024, 6, 1)
    /\ filtered = <<entries[2]>>

\* C15 as stated: a command reaches exit status 1 only through a failure of its
\* final output stage, so only after everything before that stage is done: the
\* grid is built (show) or the statistics are calculated (stats).
C15_ExitOnlyFromOutputStage ==
    exitCode = 1 =>
        \/ command = "show" /\ map # NoMap
        \/ command = "stats" /\ stats # NoStats

\* a .jsonl file that discovery can see: in the data directory itself or
\* directly in a subdirectory that can be listed
HoldsJsonlFile(dir) ==
    \E i \in 1..Len(dir.entries) :
        LET d == dir.entries[i]
        IN  \/ d.kind = "file" /\ d.jsonl
            \/ /\ d.kind = "dir" /\ d.listable
               /\ \E k \in 1..Len(d.entries) : d.entries[k].kind = "file" /\ d.entries[k].jsonl

\* C16: when the data directory cannot be listed or holds no .jsonl file,
\* loadUsageData returns no entries, and show and stats print the no-data
\* message and finish without exit status 1, having aggregated and rendered
\* nothing.
C16_NoDataIsNotAnError ==
    pc # "start" /\ (~dataDir.listable \/ ~HoldsJsonlFile(dataDir)) =>
        /\ entries = <<>>
        /\ pc = "done"
        /\ printed = <<"No Claude usage data found", "Looking for JSONL files in">>
        /\ exitCode = 0 /\ ~thrown
        /\ filtered = <<>> /\ dailyUsage = <<>> /\ map = NoMap /\ stats = NoStats

C16_Witness ==
    /\ pc = "done"
    /\ ~dataDir.listable
    /\ Len(dataDir.entries) = 1
    /\ entries = <<>>
    /\ printed[1] = "No Claude usage data found"
    /\ exitCode = 0

\* the lines of the files that can be read, in discovery order
RECURSIVE ReadableLines(_)
ReadableLines(dirents) ==
    IF Len(dirents) = 0 THEN <<>>
    ELSE LET d == Head(dirents)
         IN  (IF d.kind = "file"
              THEN (IF d.jsonl /\ d.readable THEN d.lines ELSE <<>>)
              ELSE IF d.listable
              THEN ReadableLines(SelectSeq(d.entries, LAMBDA x : x.kind = "file"))
              ELSE <<>>) \o ReadableLines(Tail(dirents))

\* C17: a source file that cannot be read contributes no entries, and a
\* subdirectory that cannot be listed is skipped: loadUsageData returns the
\* deduplicated entries of every file it can read.
C17_UnreadableSourcesAreSkipped ==
    pc # "start" /\ dataDir.listable =>
        LET all  == ValidEntries(ReadableLines(dataDir.entries))
            keep == FirstOccurrences(all)
        IN  entries = [k \in 1..Cardinality(keep) |-> all[KthSmallest(keep, k)]]

C17_Witness ==
    /\ pc # "start"
    /\ dataDir.listable
    /\ Len(dataDir.entries) = 2
    /\ dataDir.entries[1] = FileEntry(TRUE, FALSE, File2)
    /\ dataDir.entries[2] = FileEntry(TRUE, TRUE, File1)
    /\ Len(entries) = 1
    /\ entries[1].timestamp = T1

\* the (tokens, level) pairs of the day-cells of the grid
CellLevels == {<<map.weeks[w].days[i].tokens, map.weeks[w].days[i].level>> :
                  w \in 1..Len(map.weeks), i \in 1..7}

\* C18 as stated: for the grid's maximum and every two day token counts of its
\* cells, count1 <= count2 implies level(count1) <= level(count2).
C18_LevelMonotonic ==
    map # NoMap =>
        \A c1, c2 \in CellLevels : c1[1] <= c2[1] => c1[2] <= c2[2]

\* C19 as stated: formatDate(parseDate(formatDate(d))) = formatDate(d) for
\* every valid date d.
C19_FormatDateRoundTrip ==
    pc = "roundtrip" => roundTrip = formatted

\* the composite keys of a list of entries
KeysOf(es) == {DedupKey(es[i]) : i \in 1..Len(es)}

\* the files read in the order p
Reordered(fs, p) == [i \in 1..Len(fs) |-> fs[p[i]]]

\* C20: for any two orders in which the same files are read, the deduplicated
\* result of loadUsageData holds the same set of composite keys.
C20_FileOrderKeepsKeys ==
    pc # "load" /\ Len(files) >= 2 =>
        \A p \in Permutations(1..Len(files)) :
            KeysOf(LoadUsageData(Reordered(files, p))) = KeysOf(entries)

C20_Witness ==
    /\ pc # "load"
    /\ Len(files) = 2
    /\ files[1] = [readable |-> TRUE, lines |-> File1]
    /\ files[2] = [readable |-> TRUE, lines |-> File2]
    /\ Len(entries) = 2
    /\ LET other == LoadUsageData(<<files[2], files[1]>>)
       IN  /\ Len(other) = 2
           /\ KeysOf(other) = KeysOf(entries)
           /\ \E i \in 1..2 : \E j \in 1..2 :
                 DedupKey(other[i]) = DedupKey(entries[j]) /\ other[i] # entries[j]

\* C21 as stated: while aggregateByDay folds the entries, the totalTokens,
\* inputTokens, outputTokens and entryCount of every day never decrease from
\* one fold step to the next.
C21_FoldNeverDecreases ==
    [][\A i \in 1..Len(dailyMap) :
          \E j \in 1..Len(dailyMap') :
              /\ dailyMap'[j].date = dailyMap[i].date
              /\ dailyMap'[j].totalTokens >= dailyMap[i].totalTokens
              /\ dailyMap'[j].inputTokens >= dailyMap[i].inputTokens
              /\ dailyMap'[j].outputTokens >= dailyMap[i].outputTokens
              /\ dailyMap'[j].entryCount >= dailyMap[i].entryCount]_vars

\* the sum of f over the entries
SumEntries(es, f(_)) == SumOver([i \in 1..Len(es) |-> f(es[i])], 1..Len(es))

InputOf(e) == MessageUsage(e).v.input_tokens

OutputOf(e) == MessageUsage(e).v.output_tokens

CacheOf(e) ==
    LET u == MessageUsage(e).v
    IN  (IF u.cache_creation_input_tokens.t = "num" THEN u.cache_creation_input_tokens.v ELSE 0)
        + (IF u.cache_read_input_tokens.t = "num" THEN u.cache_read_input_tokens.v ELSE 0)

\* C22: with excludeCache the totals of stats (totalInputTokens, totalTokens,
\* every per-model totalTokens) count input_tokens and output_tokens only;
\* without it the cache-creation and cache-read tokens are added to them.
C22_ExcludeCacheTotals ==
    pc # "calculate" =>
        LET cache(e) == IF excludeCache THEN 0 ELSE CacheOf(e)
            inAll(e) == InputOf(e) + cache(e)
            all(e)   == InputOf(e) + OutputOf(e) + cache(e)
        IN  /\ stats.totalInputTokens = SumEntries(filtered, inAll)
            /\ stats.totalTokens = SumEntries(filtered, all)
            /\ \A k \in 1..Len(stats.modelBreakdown) :
                  LET ofModel == SelectSeq(filtered,
                                     LAMBDA e : ModelOf(e) = stats.modelBreakdown[k].model)
                  IN  stats.modelBreakdown[k].totalTokens = SumEntries(ofModel, all)

C22_Witness ==
    /\ pc # "calculate"
    /\ excludeCache
    /\ Len(filtered) = 2
    /\ CacheOf(filtered[1]) = 30
    /\ CacheOf(filtered[2]) = 7
    /\ stats.totalTokens = 8
    /\ stats.totalInputTokens = 6
    /\ Len(stats.modelBreakdown) = 2

\* C28 as stated: in the computed statistics the per-day totalTokens of
\* dailyUsage add up to the overall totalTokens, with and without
\* excludeCache, and the average daily tokens (num / den) is at most the
\* peak daily tokens.
C28_DailyTotalsAddUp ==
    pc # "calculate" =>
        /\ SumTotalTokens(stats.dailyUsage) = stats.totalTokens
        /\ stats.avgDailyTokens.num <= stats.maxDailyTokens * stats.avgDailyTokens.den

\* C29 as stated: the printed Input Tokens figure is the sum of input_tokens
\* over the filtered entries and is not negative, whether excludeCache is set
\* or not.
C29_InputTokensFigure ==
    pc = "displayed" =>
        /\ figures.inputTokens = SumEntries(filtered, InputOf)
        /\ figures.inputTokens >= 0

\* the sum of the tokens of the day-cells of the first w weeks
RECURSIVE CellTokensSum(_, _)
CellTokensSum(weeks, w) ==
    IF w = 0 THEN 0
    ELSE CellTokensSum(weeks, w - 1)
         + SumOver([i \in 1..Len(weeks[w].days) |-> weeks[w].days[i].tokens],
                   1..Len(weeks[w].days))

\* the largest token count of the day-cells
CellTokensMax(weeks) ==
    LET T == {weeks[w].days[i].tokens : w \in 1..Len(weeks), i \in 1..7}
    IN  CHOOSE t \in T : \A u \in T : u <= t

C25_CellRanges ==
    map # NoMap =>
        \A w \in 1..Len(map.weeks) : \A i \in 1..Len(map.weeks[w].days) :
            LET cell == map.weeks[w].days[i]
            IN  /\ cell.level \in 0..4
                /\ cell.tokens >= 0
                /\ cell.tokens <= map.maxDailyTokens
                /\ (cell.level = 0) <=> (cell.tokens = 0)

\* the three fields deduplicateEntries joins into its key
KeyTriple(e) == <<OrEmpty(e.requestId), OrEmpty(MessageId(e)), e.timestamp>>

\* C26 as stated: deduplicateEntries keeps every entry whose (requestId,
\* message.id, timestamp) triple, missing ids as empty strings, differs from
\* the triple of every entry before it, whatever characters the ids hold.
C26_DistinctTriplesAreKept ==
    pc # "load" =>
        LET parsed == ParseAllFiles(files)
        IN  \A i \in 1..Len(parsed) :
                (\A j \in 1..(i - 1) : KeyTriple(parsed[j]) # KeyTriple(parsed[i]))
                    => \E k \in 1..Len(entries) : entries[k] = parsed[i]

\* the local calendar date of an entry
LocalDay(e) == FormatDate(NewDate(e.timestamp))

\* the tokens of the entries whose local calendar date is d
TokensOn(es, d) ==
    LET on == SelectSeq(es, LAMBDA e : LocalDay(e) = d)
    IN  SumOver([i \in 1..Len(on) |-> InputOf(on[i]) + OutputOf(on[i])], 1..Len(on))

\* C27 as stated: in showCommand every loaded entry whose local calendar date
\* lies in the displayed window, from its first to its last day at any time of
\* day, passes the range filter and is counted in the grid cell of its date.
C27_WindowEntriesCounted ==
    /\ pc # "range" =>
          \A i \in 1..Len(entries) :
              LocalDay(entries[i]) \in WindowDates(year, startMonth)
                  => \E k \in 1..Len(filtered) : filtered[k] = entries[i]
    /\ map # NoMap =>
          \A i \in 1..Len(entries) :
              LocalDay(entries[i]) \in WindowDates(year, startMonth)
                  => \E w \in 1..Len(map.weeks) : \E d \in 1..7 :
                        /\ map.weeks[w].days[d].date = LocalDay(entries[i])
                        /\ map.weeks[w].days[d].tokens
                              = TokensOn(entries, LocalDay(entries[i]))

\* C24: no stage changes what an earlier stage produced.  Every entry that
\* loadUsageData returns after deduplicateEntries is an entry as it was parsed;
\* the range filters (filterByDateRange, the filter of showCommand),
\* aggregateByDay and generateContributionMap leave the loaded entry list as
\* it is; aggregateByDay, generateContributionMap and the output leave the
\* filtered list as it is; the DailyUsage list is still the one aggregateByDay
\* returned after generateContributionMap and after the output.
C24_StagesLeaveInputsUnchanged ==
    [][/\ pc = "start" =>
             LET parsed == ValidEntries(ReadableLines(dataDir.entries))
             IN  \A k \in 1..Len(entries') :
                     \E j \in 1..Len(parsed) : parsed[j] = entries'[k]
       /\ pc # "start" => entries' = entries
       /\ pc \in {"build", "output"} => filtered' = filtered
       /\ pc = "build" /\ command = "show" /\ pc' = "output"
             => dailyUsage' = AggregateByDay(filtered)
       /\ pc = "output" => dailyUsage' = dailyUsage /\ stats.dailyUsage' = stats.dailyUsage
      ]_vars

C24_Witness ==
    /\ pc = "done"
    /\ command = "show"
    /\ map # NoMap
    /\ Len(entries) = 3
    /\ Len(filtered) = 2
    /\ \A k \in 1..2 : filtered[k] = entries[k]
    /\ Len(dailyUsage) = 1
    /\ dailyUsage = AggregateByDay(filtered)
    /\ map.totalTokens = 12

\* C30: for every year Y, getWeeksInCustomYear(Y, 1) is the same sequence of
\* week starts as getWeeksInYear(Y), so the grid generateContributionMap
\* builds for start month 1 has the week columns the custom mode would give.
C30_JanuaryModesAgree ==
    pc = "generated" /\ startMonth = 1 =>
        LET custom == GetWeeksInCustomYear(year, 1)
        IN  /\ custom = GetWeeksInYear(year)
            /\ Len(map.weeks) = Len(custom)
            /\ \A w \in 1..Len(custom) :
                  /\ map.weeks[w].days[1].date = FormatDate(custom[w])
                  /\ map.weeks[w]
                       = [days |-> [i \in 1..7 |->
                             ContributionDay(dailyUsage, GetDaysInWeek(custom[w])[i],
                                             map.maxDailyTokens)]]

C30_Witness ==
    /\ pc = "generated"
    /\ startMonth = 1
    /\ year = 2000
    /\ Len(GetWeeksInCustomYear(2000, 1)) = 53
    /\ Len(map.weeks) = 53
    /\ map.weeks[1].days[1].date = DateText(1999, 12, 26)
    /\ map.weeks[53].days[7].date = DateText(2000, 12, 30)

====
